---- MODULE Spec2Model ----
(***************************************************************************)
(* Keyset pagination with opaque cursors (query_pager).                    *)
(*                                                                         *)
(* A Python str is a sequence of one-character strings; a Python bytes     *)
(* value is a sequence of integers 0..255.  A JSON / Python value is a     *)
(* tagged record:                                                          *)
(*    [t |-> "int",   n  |-> integer]                                      *)
(*    [t |-> "str",   s  |-> text]                                         *)
(*    [t |-> "list",  xs |-> sequence of values]                           *)
(*    [t |-> "dict",  kv |-> sequence of <<key text, value>>, keys unique, *)
(*                           in insertion order]                           *)
(*    [t |-> "lit",   name |-> "true" | "false" | "null" | "NaN" | ...]    *)
(*    [t |-> "float", text |-> the number's text]                          *)
(***************************************************************************)
EXTENDS Integers, Sequences, FiniteSets, TLC

VARIABLES
  rows,      \* the table: a set of rows, each a function from field name to integer
  query,     \* the query of the current call: [order_by, where]
  self,      \* the paginator object: [order_fields, field_names]
  options,   \* PageOptions of the current call: [cursor, size, include_prev_cursor]
  pc,        \* where the current paginate call stands: idle, count, fetch, done
  locals,    \* paginate's locals: [has_cursor, cursor_values, direction, total_size]
  calls,     \* the backend calls the current paginate call has made, in order
  result,    \* what the last paginate call returned or raised
  via,       \* how the client chose the cursor of the current call
  trail,     \* the pages of the walk the client is on, oldest first, each with
             \* the table its items query ran on
  call       \* a library function called on its own: its name, arguments, result;
             \* with two paginate_async calls under way, the call that does not run

vars == <<rows, query, self, options, pc, locals, calls, result, via, trail, call>>

(***************************************************************************)
(* Bounds of the model                                                     *)
(***************************************************************************)

\* The table holds at most MaxRows rows, with id 1..n.
MaxRows == 3
\* The non-key field a takes the values 0..MaxA.
MaxA == 1
\* Page sizes 1..MaxSize are requested.
MaxSize == 2
\* A walk has at most MaxSteps pages.
MaxSteps == 4

(***************************************************************************)
(* Characters and bytes                                                    *)
(***************************************************************************)

\* The printable ASCII characters, codes 32..126, in code order.
Printable ==
  <<" ", "!", "\"", "#", "$", "%", "&", "'", "(", ")", "*", "+", ",", "-", ".", "/",
    "0", "1", "2", "3", "4", "5", "6", "7", "8", "9", ":", ";", "<", "=", ">", "?",
    "@", "A", "B", "C", "D", "E", "F", "G", "H", "I", "J", "K", "L", "M", "N", "O",
    "P", "Q", "R", "S", "T", "U", "V", "W", "X", "Y", "Z", "[", "\\", "]", "^", "_",
    "BQ", "a", "b", "c", "d", "e", "f", "g", "h", "i", "j", "k", "l", "m", "n", "o",
    "p", "q", "r", "s", "t", "u", "v", "w", "x", "y", "z", "{", "|", "}", "~">>

\* The URL-safe base64 alphabet, values 0..63 in order.
UrlSafeAlphabet ==
  <<"A", "B", "C", "D", "E", "F", "G", "H", "I", "J", "K", "L", "M", "N", "O", "P",
    "Q", "R", "S", "T", "U", "V", "W", "X", "Y", "Z", "a", "b", "c", "d", "e", "f",
    "g", "h", "i", "j", "k", "l", "m", "n", "o", "p", "q", "r", "s", "t", "u", "v",
    "w", "x", "y", "z", "0", "1", "2", "3", "4", "5", "6", "7", "8", "9", "-", "_">>

Digits == <<"0", "1", "2", "3", "4", "5", "6", "7", "8", "9">>

HexDigits ==
  <<"0", "1", "2", "3", "4", "5", "6", "7", "8", "9", "a", "b", "c", "d", "e", "f">>

\* The backquote (code 96) is written "BQ".  Characters outside printable
\* ASCII are kept as these stand-ins: a control
\* character below 32 other than tab, newline and carriage return; DEL; any
\* character above 127.
CtlChar == "CTL"
DelChar == "DEL"
HighChar == "U+"

\* str.strip() and the JSON scanner's whitespace.
Whitespace == {" ", "\t", "\n", "\r"}

\* ord(c) for the characters a JSON text written by json.dumps is made of.
Ord == [c \in {Printable[i] : i \in 1..95} |->
          31 + (CHOOSE i \in 1..95 : Printable[i] = c)]

\* chr(b) for a code point.
Chr(b) ==
  IF b >= 32 /\ b <= 126 THEN Printable[b - 31]
  ELSE IF b = 9 THEN "\t"
  ELSE IF b = 10 THEN "\n"
  ELSE IF b = 13 THEN "\r"
  ELSE IF b = 127 THEN DelChar
  ELSE IF b < 32 THEN CtlChar
  ELSE HighChar

DigitValue == [c \in {Digits[i] : i \in 1..10} |->
                 (CHOOSE i \in 1..10 : Digits[i] = c) - 1]

HexValue ==
  [c \in {HexDigits[i] : i \in 1..16} \cup {"A", "B", "C", "D", "E", "F"} |->
     IF c \in {HexDigits[i] : i \in 1..16}
     THEN (CHOOSE i \in 1..16 : HexDigits[i] = c) - 1
     ELSE CASE c = "A" -> 10 [] c = "B" -> 11 [] c = "C" -> 12
            [] c = "D" -> 13 [] c = "E" -> 14 [] c = "F" -> 15]

\* The result of an operation that raised.
Fail == [ok |-> FALSE]

Ok(v) == [ok |-> TRUE, v |-> v]

(***************************************************************************)
(* str.encode("utf-8") and bytes.decode("utf-8")                           *)
(***************************************************************************)

\* json.dumps writes ASCII only (ensure_ascii), so every character is one byte.
Utf8Encode(text) == [i \in 1..Len(text) |-> Ord[text[i]]]

IsCont(b) == b >= 128 /\ b <= 191

\* The number of bytes of the well-formed UTF-8 sequence that starts at bs[i],
\* or 0 when none does.
Utf8SeqLen(bs, i) ==
  LET n == Len(bs)
      b0 == bs[i]
      b1 == IF i + 1 <= n THEN bs[i + 1] ELSE 0
      b2 == IF i + 2 <= n THEN bs[i + 2] ELSE 0
      b3 == IF i + 3 <= n THEN bs[i + 3] ELSE 0
  IN  IF b0 < 128 THEN 1
      ELSE IF b0 >= 194 /\ b0 <= 223 THEN (IF IsCont(b1) THEN 2 ELSE 0)
      ELSE IF b0 = 224 THEN (IF b1 >= 160 /\ b1 <= 191 /\ IsCont(b2) THEN 3 ELSE 0)
      ELSE IF b0 = 237 THEN (IF b1 >= 128 /\ b1 <= 159 /\ IsCont(b2) THEN 3 ELSE 0)
      ELSE IF b0 >= 225 /\ b0 <= 239 THEN (IF IsCont(b1) /\ IsCont(b2) THEN 3 ELSE 0)
      ELSE IF b0 = 240
           THEN (IF b1 >= 144 /\ b1 <= 191 /\ IsCont(b2) /\ IsCont(b3) THEN 4 ELSE 0)
      ELSE IF b0 >= 241 /\ b0 <= 243
           THEN (IF IsCont(b1) /\ IsCont(b2) /\ IsCont(b3) THEN 4 ELSE 0)
      ELSE IF b0 = 244
           THEN (IF b1 >= 128 /\ b1 <= 143 /\ IsCont(b2) /\ IsCont(b3) THEN 4 ELSE 0)
      ELSE 0

\* The index of the first byte at or after bs[i] that is not ASCII, or
\* Len(bs) + 1.
FirstHigh(bs, i) ==
  IF \E j \in i..Len(bs) : bs[j] >= 128
  THEN CHOOSE j \in i..Len(bs) : bs[j] >= 128 /\ \A k \in i..(j - 1) : bs[k] < 128
  ELSE Len(bs) + 1

\* Decoding from bs[i] on: a run of ASCII bytes, then one multi-byte sequence.
RECURSIVE Utf8DecodeFrom(_, _, _)
Utf8DecodeFrom(bs, i, acc) ==
  LET j == FirstHigh(bs, i)
      run == acc \o [k \in 1..(j - i) |-> Chr(bs[i + k - 1])]
  IN  IF j > Len(bs) THEN Ok(run)
      ELSE LET n == Utf8SeqLen(bs, j) IN
           IF n = 0 THEN Fail
           ELSE Utf8DecodeFrom(bs, j + n, Append(run, HighChar))

\* bytes.decode("utf-8"): Fail stands for UnicodeDecodeError.
Utf8Decode(bs) == Utf8DecodeFrom(bs, 1, <<>>)

(***************************************************************************)
(* base64.urlsafe_b64encode and base64.urlsafe_b64decode                   *)
(***************************************************************************)

\* One group of up to three bytes starting at bs[i], as four characters.
B64Quad(bs, i) ==
  LET n == Len(bs)
      b0 == bs[i]
      b1 == IF i + 1 <= n THEN bs[i + 1] ELSE 0
      b2 == IF i + 2 <= n THEN bs[i + 2] ELSE 0
  IN  << UrlSafeAlphabet[(b0 \div 4) + 1],
         UrlSafeAlphabet[((b0 % 4) * 16 + (b1 \div 16)) + 1],
         IF i + 1 <= n THEN UrlSafeAlphabet[((b1 % 16) * 4 + (b2 \div 64)) + 1]
                       ELSE "=",
         IF i + 2 <= n THEN UrlSafeAlphabet[(b2 % 64) + 1] ELSE "=" >>

urlsafe_b64encode(bs) ==
  [k \in 1..(4 * ((Len(bs) + 2) \div 3)) |->
     B64Quad(bs, 3 * ((k - 1) \div 4) + 1)[((k - 1) % 4) + 1]]

\* The 6-bit value of a character: the URL-safe alphabet, and "+" and "/",
\* which the decoder's translation table leaves in place for b64decode.
B64Value ==
  [c \in {UrlSafeAlphabet[i] : i \in 1..64} \cup {"+", "/"} |->
     IF c = "+" THEN 62
     ELSE IF c = "/" THEN 63
     ELSE (CHOOSE i \in 1..64 : UrlSafeAlphabet[i] = c) - 1]

IsB64Data(c) == c \in DOMAIN B64Value

IsB64DataOrPad(c) == c = "=" \/ IsB64Data(c)

\* binascii.a2b_base64 without strict mode, on the input with the characters
\* outside the alphabet already skipped.  quad_pos at an index is the number
\* of data characters before it modulo 4.  A pad ends the input when it
\* follows three data characters of a group, or two of them and another pad;
\* the bytes completed so far are the result.  Without such a pad an
\* unfinished group at the end is an error.
a2b_base64(s) ==
  LET n == Len(s)
      quad_pos(i) == Cardinality({j \in 1..(i - 1) : s[j] # "="}) % 4
      Ends(i) == /\ s[i] = "="
                 /\ \/ quad_pos(i) = 3
                    \/ quad_pos(i) = 2 /\ i > 1 /\ s[i - 1] = "="
      stops == \E i \in 1..n : Ends(i)
      stop == IF stops
              THEN CHOOSE i \in 1..n : Ends(i) /\ \A j \in 1..(i - 1) : ~Ends(j)
              ELSE n + 1
      data == SelectSeq(SubSeq(s, 1, stop - 1), IsB64Data)
      d == [k \in 1..Len(data) |-> B64Value[data[k]]]
      m == Len(d)
      nbytes == 3 * (m \div 4) + (IF m % 4 = 0 THEN 0 ELSE (m % 4) - 1)
      Byte(k) ==
        LET g == 4 * ((k - 1) \div 3)
            r == (k - 1) % 3
        IN  CASE r = 0 -> d[g + 1] * 4 + (d[g + 2] \div 16)
              [] r = 1 -> (d[g + 2] % 16) * 16 + (d[g + 3] \div 4)
              [] r = 2 -> (d[g + 3] % 4) * 64 + d[g + 4]
  IN  IF ~stops /\ m % 4 # 0 THEN Fail
      ELSE Ok([k \in 1..nbytes |-> Byte(k)])

\* Fail stands for binascii.Error.
urlsafe_b64decode(s) == a2b_base64(SelectSeq(s, IsB64DataOrPad))

(***************************************************************************)
(* json.dumps(obj, separators=(",", ":"), default=str)                     *)
(***************************************************************************)

PyInt(n) == [t |-> "int", n |-> n]
PyStr(s) == [t |-> "str", s |-> s]
PyList(xs) == [t |-> "list", xs |-> xs]
PyDict(kv) == [t |-> "dict", kv |-> kv]
PyLit(name) == [t |-> "lit", name |-> name]
PyNone == PyLit("null")

RECURSIVE NatToText(_)
NatToText(n) ==
  IF n < 10 THEN <<Digits[n + 1]>>
  ELSE NatToText(n \div 10) \o <<Digits[(n % 10) + 1]>>

IntToText(n) == IF n < 0 THEN <<"-">> \o NatToText(0 - n) ELSE NatToText(n)

\* The four hexadecimal digits of a code below 65536.
Hex4(b) ==
  << HexDigits[(b \div 4096) + 1], HexDigits[((b \div 256) % 16) + 1],
     HexDigits[((b \div 16) % 16) + 1], HexDigits[(b % 16) + 1] >>

\* py_encode_basestring_ascii for one character.
EscapeChar(c) ==
  IF c = "\"" THEN <<"\\", "\"">>
  ELSE IF c = "\\" THEN <<"\\", "\\">>
  ELSE IF c = "\n" THEN <<"\\", "n">>
  ELSE IF c = "\r" THEN <<"\\", "r">>
  ELSE IF c = "\t" THEN <<"\\", "t">>
  ELSE IF c = CtlChar THEN <<"\\", "u">> \o Hex4(1)
  ELSE IF c = DelChar THEN <<"\\", "u">> \o Hex4(127)
  ELSE IF c = HighChar THEN <<"\\", "u">> \o Hex4(128)
  ELSE <<c>>

RECURSIVE EscapeFrom(_, _)
EscapeFrom(s, i) ==
  IF i > Len(s) THEN <<>> ELSE EscapeChar(s[i]) \o EscapeFrom(s, i + 1)

DumpStr(s) == <<"\"">> \o EscapeFrom(s, 1) \o <<"\"">>

LitText(name) ==
  CASE name = "true" -> <<"t", "r", "u", "e">>
    [] name = "false" -> <<"f", "a", "l", "s", "e">>
    [] name = "null" -> <<"n", "u", "l", "l">>
    [] name = "NaN" -> <<"N", "a", "N">>
    [] name = "Infinity" -> <<"I", "n", "f", "i", "n", "i", "t", "y">>
    [] name = "-Infinity" -> <<"-", "I", "n", "f", "i", "n", "i", "t", "y">>

RECURSIVE json_dumps(_)
RECURSIVE DumpItems(_, _)
RECURSIVE DumpPairs(_, _)

DumpItems(xs, i) ==
  IF i > Len(xs) THEN <<>>
  ELSE (IF i > 1 THEN <<",">> ELSE <<>>) \o json_dumps(xs[i]) \o DumpItems(xs, i + 1)

DumpPairs(kv, i) ==
  IF i > Len(kv) THEN <<>>
  ELSE (IF i > 1 THEN <<",">> ELSE <<>>)
       \o DumpStr(kv[i][1]) \o <<":">> \o json_dumps(kv[i][2])
       \o DumpPairs(kv, i + 1)

json_dumps(x) ==
  CASE x.t = "int" -> IntToText(x.n)
    [] x.t = "str" -> DumpStr(x.s)
    [] x.t = "list" -> <<"[">> \o DumpItems(x.xs, 1) \o <<"]">>
    [] x.t = "dict" -> <<"{">> \o DumpPairs(x.kv, 1) \o <<"}">>
    [] x.t = "lit" -> LitText(x.name)
    [] x.t = "float" -> x.text

(***************************************************************************)
(* json.loads(text)                                                        *)
(***************************************************************************)

\* A scanner result: the value and the index of the first unread character.
At(v, i) == [ok |-> TRUE, v |-> v, i |-> i]

RECURSIVE SkipWs(_, _)
SkipWs(s, i) == IF i <= Len(s) /\ s[i] \in Whitespace THEN SkipWs(s, i + 1) ELSE i

IsDigit(s, i) == i <= Len(s) /\ s[i] \in DOMAIN DigitValue

RECURSIVE DigitsEnd(_, _)
DigitsEnd(s, i) == IF IsDigit(s, i) THEN DigitsEnd(s, i + 1) ELSE i

RECURSIVE DigitsValue(_, _, _, _)
DigitsValue(s, i, j, acc) ==
  IF i >= j THEN acc ELSE DigitsValue(s, i + 1, j, acc * 10 + DigitValue[s[i]])

\* dict[key] = value: a key already present keeps its place.
DictSet(kv, k, v) ==
  IF \E j \in 1..Len(kv) : kv[j][1] = k
  THEN [j \in 1..Len(kv) |-> IF kv[j][1] = k THEN <<k, v>> ELSE kv[j]]
  ELSE Append(kv, <<k, v>>)

StartsWith(s, i, w) ==
  /\ i + Len(w) - 1 <= Len(s)
  /\ \A k \in 1..Len(w) : s[i + k - 1] = w[k]

\* The character a backslash escape other than \u stands for.
SimpleEscape(e) ==
  CASE e = "\"" -> "\""
    [] e = "\\" -> "\\"
    [] e = "/" -> "/"
    [] e = "b" -> CtlChar
    [] e = "f" -> CtlChar
    [] e = "n" -> "\n"
    [] e = "r" -> "\r"
    [] e = "t" -> "\t"

\* py_scanstring, strict: s[i] is the first character after the opening quote.
RECURSIVE ScanString(_, _, _)
ScanString(s, i, acc) ==
  IF i > Len(s) THEN Fail
  ELSE IF s[i] = "\"" THEN At(acc, i + 1)
  ELSE IF s[i] = "\\"
  THEN IF i + 1 > Len(s) THEN Fail
       ELSE IF s[i + 1] \in {"\"", "\\", "/", "b", "f", "n", "r", "t"}
       THEN ScanString(s, i + 2, Append(acc, SimpleEscape(s[i + 1])))
       ELSE IF s[i + 1] = "u"
                /\ i + 5 <= Len(s)
                /\ \A k \in 2..5 : s[i + k] \in DOMAIN HexValue
       THEN ScanString(s, i + 6,
               Append(acc, Chr(HexValue[s[i + 2]] * 4096 + HexValue[s[i + 3]] * 256
                               + HexValue[s[i + 4]] * 16 + HexValue[s[i + 5]])))
       ELSE Fail
  ELSE IF s[i] \in {CtlChar, "\t", "\n", "\r"} THEN Fail
  ELSE ScanString(s, i + 1, Append(acc, s[i]))

\* NUMBER_RE of json.scanner at s[i]: (-?(?:0|[1-9]\d*))(\.\d+)?([eE][-+]?\d+)?
ScanNumber(s, i) ==
  LET neg == i <= Len(s) /\ s[i] = "-"
      i0 == IF neg THEN i + 1 ELSE i
      iEnd == IF IsDigit(s, i0) /\ s[i0] = "0" THEN i0 + 1 ELSE DigitsEnd(s, i0)
      fEnd == IF iEnd <= Len(s) /\ s[iEnd] = "." /\ IsDigit(s, iEnd + 1)
              THEN DigitsEnd(s, iEnd + 1) ELSE iEnd
      eSign == IF fEnd + 1 <= Len(s) /\ s[fEnd + 1] \in {"+", "-"}
               THEN fEnd + 2 ELSE fEnd + 1
      eEnd == IF fEnd <= Len(s) /\ s[fEnd] \in {"e", "E"} /\ IsDigit(s, eSign)
              THEN DigitsEnd(s, eSign) ELSE fEnd
      mag == DigitsValue(s, i0, iEnd, 0)
  IN  IF ~IsDigit(s, i0) THEN Fail
      ELSE IF eEnd = iEnd THEN At(PyInt(IF neg THEN 0 - mag ELSE mag), iEnd)
      ELSE At([t |-> "float", text |-> SubSeq(s, i, eEnd - 1)], eEnd)

RECURSIVE ScanValue(_, _)
RECURSIVE ScanArray(_, _, _)
RECURSIVE ScanObject(_, _, _)

\* JSONArray after the first value: s[i] follows a value.
ScanArray(s, i, acc) ==
  LET j == SkipWs(s, i) IN
  IF j > Len(s) THEN Fail
  ELSE IF s[j] = "]" THEN At(PyList(acc), j + 1)
  ELSE IF s[j] # "," THEN Fail
  ELSE LET r == ScanValue(s, SkipWs(s, j + 1)) IN
       IF ~r.ok THEN Fail ELSE ScanArray(s, r.i, Append(acc, r.v))

\* JSONObject: s[i] is where the next key's opening quote must stand.
ScanObject(s, i, acc) ==
  IF i > Len(s) \/ s[i] # "\"" THEN Fail
  ELSE LET k == ScanString(s, i + 1, <<>>) IN
    IF ~k.ok THEN Fail
    ELSE LET c == SkipWs(s, k.i) IN
      IF c > Len(s) \/ s[c] # ":" THEN Fail
      ELSE LET r == ScanValue(s, SkipWs(s, c + 1)) IN
        IF ~r.ok THEN Fail
        ELSE LET j == SkipWs(s, r.i)
                 kv == DictSet(acc, k.v, r.v)
             IN  IF j > Len(s) THEN Fail
                 ELSE IF s[j] = "}" THEN At(PyDict(kv), j + 1)
                 ELSE IF s[j] # "," THEN Fail
                 ELSE ScanObject(s, SkipWs(s, j + 1), kv)

\* py_make_scanner's _scan_once at s[i].
ScanValue(s, i) ==
  IF i > Len(s) THEN Fail
  ELSE IF s[i] = "\"" THEN
    LET r == ScanString(s, i + 1, <<>>) IN
    IF r.ok THEN At(PyStr(r.v), r.i) ELSE Fail
  ELSE IF s[i] = "{" THEN
    LET j == SkipWs(s, i + 1) IN
    IF j <= Len(s) /\ s[j] = "}" THEN At(PyDict(<<>>), j + 1)
    ELSE ScanObject(s, j, <<>>)
  ELSE IF s[i] = "[" THEN
    LET j == SkipWs(s, i + 1) IN
    IF j <= Len(s) /\ s[j] = "]" THEN At(PyList(<<>>), j + 1)
    ELSE LET r == ScanValue(s, j) IN
         IF ~r.ok THEN Fail ELSE ScanArray(s, r.i, <<r.v>>)
  ELSE IF StartsWith(s, i, LitText("null")) THEN At(PyLit("null"), i + 4)
  ELSE IF StartsWith(s, i, LitText("true")) THEN At(PyLit("true"), i + 4)
  ELSE IF StartsWith(s, i, LitText("false")) THEN At(PyLit("false"), i + 5)
  ELSE IF IsDigit(s, i) \/ (s[i] = "-" /\ IsDigit(s, i + 1)) THEN ScanNumber(s, i)
  ELSE IF StartsWith(s, i, LitText("NaN")) THEN At(PyLit("NaN"), i + 3)
  ELSE IF StartsWith(s, i, LitText("Infinity")) THEN At(PyLit("Infinity"), i + 8)
  ELSE IF StartsWith(s, i, LitText("-Infinity")) THEN At(PyLit("-Infinity"), i + 9)
  ELSE Fail

\* json.loads: one value, whitespace around it, nothing after it.  Fail stands
\* for json.JSONDecodeError.
json_loads(s) ==
  LET r == ScanValue(s, SkipWs(s, 1)) IN
  IF ~r.ok THEN Fail
  ELSE IF SkipWs(s, r.i) <= Len(s) THEN Fail
  ELSE Ok(r.v)

(***************************************************************************)
(* core/cursor.py                                                          *)
(***************************************************************************)

\* An operation that raised the named exception.
Raise(kind) == [ok |-> FALSE, err |-> kind]

NEXT == <<"n", "e", "x", "t">>
PREV == <<"p", "r", "e", "v">>

KeyO == <<"o">>
KeyV == <<"v">>
KeyD == <<"d">>

\* key in d, d[key] and d.keys() of a dict.
HasKey(kv, k) == \E j \in 1..Len(kv) : kv[j][1] = k
DictGet(kv, k) == kv[CHOOSE j \in 1..Len(kv) : kv[j][1] = k][2]
DictKeys(kv) == {kv[j][1] : j \in 1..Len(kv)}

\* d1 == d2 of two dicts: the same keys with the same values, in any order.
DictEq(kv1, kv2) == {kv1[j] : j \in 1..Len(kv1)} = {kv2[j] : j \in 1..Len(kv2)}

\* OrderToken that writes every direction as "+".
OrderTokenPlus(pair) == <<"+">> \o pair[1]

\* The compact ordering token of one (field, direction) pair: "+name", "-name".
OrderToken(pair) == <<IF pair[2] = "asc" THEN "+" ELSE "-">> \o pair[1]

\* encode_cursor without its checks of the arguments.
encode_cursor_unchecked(order_fields, values, direction) ==
  LET ordering == [i \in 1..Len(order_fields) |-> PyStr(OrderToken(order_fields[i]))]
      cursor_data == PyDict(<< <<KeyO, PyList(ordering)>>,
                               <<KeyV, PyDict(values)>>,
                               <<KeyD, PyStr(direction)>> >>)
      json_str == json_dumps(cursor_data)
  IN  Ok(urlsafe_b64encode(Utf8Encode(json_str)))

encode_cursor(order_fields, values, direction) ==
  IF Len(order_fields) = 0 THEN Raise("CursorError")
  ELSE IF Len(values) = 0 THEN Raise("CursorError")
  ELSE IF direction \notin {NEXT, PREV} THEN Raise("CursorError")
  ELSE
    LET ordering == [i \in 1..Len(order_fields) |-> PyStr(OrderToken(order_fields[i]))]
        cursor_data == PyDict(<< <<KeyO, PyList(ordering)>>,
                                 <<KeyV, PyDict(values)>>,
                                 <<KeyD, PyStr(direction)>> >>)
        json_str == json_dumps(cursor_data)
    IN  Ok(urlsafe_b64encode(Utf8Encode(json_str)))

\* One entry of "o" is well formed: a str of at least two characters that
\* starts with "+" or "-".
TokenOk(field_str) ==
  /\ field_str.t = "str"
  /\ Len(field_str.s) >= 2
  /\ field_str.s[1] \in {"+", "-"}

ParseToken(field_str) ==
  << Tail(field_str.s), IF field_str.s[1] = "+" THEN "asc" ELSE "desc" >>

\* The checks of decode_cursor on the parsed payload.
DecodePayload(cursor_data) ==
  IF cursor_data.t # "dict" THEN Raise("CursorError")
  ELSE IF ~HasKey(cursor_data.kv, KeyO) \/ ~HasKey(cursor_data.kv, KeyV)
  THEN Raise("CursorError")
  ELSE
    LET ordering == DictGet(cursor_data.kv, KeyO)
        values == DictGet(cursor_data.kv, KeyV)
        direction == IF HasKey(cursor_data.kv, KeyD)
                     THEN DictGet(cursor_data.kv, KeyD) ELSE PyStr(NEXT)
    IN  IF ordering.t # "list" \/ values.t # "dict" THEN Raise("CursorError")
        ELSE IF ~(direction.t = "str" /\ direction.s \in {NEXT, PREV})
        THEN Raise("CursorError")
        ELSE IF \E i \in 1..Len(ordering.xs) : ~TokenOk(ordering.xs[i])
        THEN Raise("CursorError")
        ELSE Ok([order_fields |-> [i \in 1..Len(ordering.xs) |->
                                     ParseToken(ordering.xs[i])],
                 values |-> values.kv,
                 direction |-> direction.s])

decode_cursor(cursor) ==
  IF Len(cursor) = 0 \/ \A i \in 1..Len(cursor) : cursor[i] \in Whitespace
  THEN Raise("CursorError")
  ELSE
    LET Loaded(cursor_data) ==
          IF ~cursor_data.ok THEN Raise("CursorError")
          ELSE DecodePayload(cursor_data.v)
        Text(text) ==
          IF ~text.ok THEN Raise("CursorError") ELSE Loaded(json_loads(text.v))
        Bytes(decoded) ==
          IF ~decoded.ok THEN Raise("CursorError") ELSE Text(Utf8Decode(decoded.v))
    IN  Bytes(urlsafe_b64decode(cursor))

\* validate_cursor_ordering that compares the field names and not the
\* directions.
validate_cursor_ordering_names(cursor_order_fields, expected_order_fields) ==
  IF [i \in 1..Len(cursor_order_fields) |-> cursor_order_fields[i][1]]
       # [i \in 1..Len(expected_order_fields) |-> expected_order_fields[i][1]]
  THEN Raise("CursorError") ELSE Ok(TRUE)

validate_cursor_ordering(cursor_order_fields, expected_order_fields) ==
  IF cursor_order_fields # expected_order_fields THEN Raise("CursorError") ELSE Ok(TRUE)

\* validate_cursor_fields that accepts every values map.
validate_cursor_fields_skipped(cursor_values, expected_fields) == Ok(TRUE)

validate_cursor_fields(cursor_values, expected_fields) ==
  LET missing_fields == {expected_fields[i] : i \in 1..Len(expected_fields)}
                          \ DictKeys(cursor_values)
  IN  IF missing_fields # {} THEN Raise("CursorError") ELSE Ok(TRUE)

(***************************************************************************)
(* The table and the backend                                               *)
(***************************************************************************)

FieldId == <<"i", "d">>
FieldA == <<"a">>
Fields == {FieldId, FieldA}

\* Optional[str] None.
None == <<"None">>

Min(a, b) == IF a <= b THEN a ELSE b

Reverse(s) == [i \in 1..Len(s) |-> s[Len(s) + 1 - i]]

\* The tables: ids 1..n for n up to MaxRows, any value of a on each row.
Tables ==
  UNION { { { [f \in Fields |-> IF f = FieldId THEN i ELSE av[i]] : i \in 1..n }
            : av \in [1..n -> 0..MaxA] }
          : n \in 0..MaxRows }

\* column <op> value as the backend evaluates it on an integer column.  A value
\* that is not an integer follows SQLite's ordering of storage classes: NULL
\* compares as unknown, and every integer sorts before every text.
Compare(x, op, value) ==
  CASE value.t = "int" ->
         CASE op = ">" -> x > value.n
           [] op = "<" -> x < value.n
           [] op = "=" -> x = value.n
    [] value.t = "str" -> op = "<"
    [] OTHER -> FALSE

\* The values a backend compares with an integer column without raising.
Comparable(value) == value.t = "int"

\* OR over the groups, AND inside a group; no group at all selects every row.
EvalConditions(groups, r) ==
  \/ Len(groups) = 0
  \/ \E g \in 1..Len(groups) :
       \A c \in 1..Len(groups[g]) :
         Compare(r[groups[g][c][1]], groups[g][c][2], groups[g][c][3])

\* Row r1 sorts strictly before row r2 under ORDER BY order.
Before(r1, r2, order) ==
  \E i \in 1..Len(order) :
    /\ \A j \in 1..(i - 1) : r1[order[j][1]] = r2[order[j][1]]
    /\ IF order[i][2] = "asc"
       THEN r1[order[i][1]] < r2[order[i][1]]
       ELSE r1[order[i][1]] > r2[order[i][1]]

\* Every sequence a backend may return for SELECT ... ORDER BY order over the
\* row set S: rows that tie on every ordering field come in any order.
Ordered(S, order) ==
  { p \in [1..Cardinality(S) -> S] :
      /\ \A i, j \in 1..Cardinality(S) : i # j => p[i] # p[j]
      /\ \A i, j \in 1..Cardinality(S) : i < j => ~Before(p[j], p[i], order) }

\* The rows of the query without any seek predicate.
BaseRows(q) == {r \in rows : EvalConditions(q.where, r)}

(***************************************************************************)
(* core/keyset.py                                                          *)
(***************************************************************************)

FieldNames(order_fields) == [i \in 1..Len(order_fields) |-> order_fields[i][1]]

\* SeekOp with the direction of the axis ignored.
SeekOpAscendingOnly(direction, is_prev) == IF is_prev THEN "<" ELSE ">"

\* The comparison operator of one axis.
SeekOp(direction, is_prev) ==
  IF is_prev
  THEN (IF direction = "asc" THEN "<" ELSE ">")
  ELSE (IF direction = "asc" THEN ">" ELSE "<")

\* _build_multi_field_conditions without the equalities on the earlier fields.
_build_multi_field_conditions_no_prefix(order_fields, cursor_values, is_prev) ==
  [i \in 1..Len(order_fields) |->
     << <<order_fields[i][1], SeekOp(order_fields[i][2], is_prev),
          DictGet(cursor_values, order_fields[i][1])>> >>]

_build_multi_field_conditions(order_fields, cursor_values, is_prev) ==
  [i \in 1..Len(order_fields) |->
     [j \in 1..i |->
        IF j < i
        THEN <<order_fields[j][1], "=", DictGet(cursor_values, order_fields[j][1])>>
        ELSE <<order_fields[i][1], SeekOp(order_fields[i][2], is_prev),
               DictGet(cursor_values, order_fields[i][1])>>]]

build_cursor_filter_conditions(order_fields, cursor_values, is_prev) ==
  IF Len(order_fields) = 1
  THEN << << <<order_fields[1][1], SeekOp(order_fields[1][2], is_prev),
               DictGet(cursor_values, order_fields[1][1])>> >> >>
  ELSE _build_multi_field_conditions(order_fields, cursor_values, is_prev)

\* The dict encode_cursor_values builds: one entry per field name, the value
\* of the item's attribute.
RECURSIVE ItemValues(_, _, _, _)
ItemValues(field_names, item, i, acc) ==
  IF i > Len(field_names) THEN acc
  ELSE ItemValues(field_names, item, i + 1,
                  DictSet(acc, field_names[i], PyInt(item[field_names[i]])))

\* encode_cursor_values that leaves the direction to encode_cursor's default.
encode_cursor_values_default_direction(order_fields, field_names, item, direction) ==
  encode_cursor(order_fields, ItemValues(field_names, item, 1, <<>>), NEXT)

encode_cursor_values(order_fields, field_names, item, direction) ==
  encode_cursor(order_fields, ItemValues(field_names, item, 1, <<>>), direction)

\* decode_cursor_values that takes only None for no cursor.
decode_cursor_values_none_only(order_fields, field_names, cursor) ==
  IF cursor = None
  THEN Ok([has_cursor |-> FALSE, cursor_values |-> <<>>, direction |-> NEXT])
  ELSE
    LET Decoded(d) ==
          IF ~d.ok THEN d
          ELSE IF ~validate_cursor_ordering(d.v.order_fields, order_fields).ok
          THEN Raise("CursorError")
          ELSE IF ~validate_cursor_fields(d.v.values, field_names).ok
          THEN Raise("CursorError")
          ELSE Ok([has_cursor |-> TRUE, cursor_values |-> d.v.values,
                   direction |-> d.v.direction])
    IN  Decoded(decode_cursor(cursor))

\* decode_cursor_values: [ok, has_cursor, cursor_values, direction] or the
\* exception raised.
decode_cursor_values(order_fields, field_names, cursor) ==
  IF cursor = None \/ Len(cursor) = 0
  THEN Ok([has_cursor |-> FALSE, cursor_values |-> <<>>, direction |-> NEXT])
  ELSE
    LET Decoded(d) ==
          IF ~d.ok THEN d
          ELSE IF ~validate_cursor_ordering(d.v.order_fields, order_fields).ok
          THEN Raise("CursorError")
          ELSE IF ~validate_cursor_fields(d.v.values, field_names).ok
          THEN Raise("CursorError")
          ELSE Ok([has_cursor |-> TRUE, cursor_values |-> d.v.values,
                   direction |-> d.v.direction])
    IN  Decoded(decode_cursor(cursor))

\* What a paginate call returns: a page, or the exception it raised.
Page(total_size, prev, next, items) ==
  [kind |-> "page", err |-> "", total_size |-> total_size,
   prev |-> prev, next |-> next, items |-> items]

Raised(err) ==
  [kind |-> "error", err |-> err, total_size |-> 0,
   prev |-> None, next |-> None, items |-> <<>>]

NoResult ==
  [kind |-> "none", err |-> "", total_size |-> 0,
   prev |-> None, next |-> None, items |-> <<>>]

\* create_paginated_response without the guard on items: the first or last
\* item of an empty list is taken.
create_paginated_response_unguarded(order_fields, field_names, items, total_size, requested_size, has_previous, has_next, include_prev_cursor) ==
  LET Response(prev_cursor, next_cursor) ==
        IF ~prev_cursor.ok \/ ~next_cursor.ok THEN Raised(IF Len(items) = 0 THEN "IndexError" ELSE "CursorError")
        ELSE Page(total_size, prev_cursor.v, next_cursor.v, items)
  IN  Response(IF has_previous \/ include_prev_cursor
               THEN (IF Len(items) = 0 THEN Raise("IndexError")
                     ELSE encode_cursor_values(order_fields, field_names, items[1], PREV))
               ELSE Ok(None),
               IF has_next
               THEN (IF Len(items) = 0 THEN Raise("IndexError")
                     ELSE encode_cursor_values(order_fields, field_names, items[Len(items)], NEXT))
               ELSE Ok(None))

create_paginated_response(order_fields, field_names, items, total_size, requested_size, has_previous, has_next, include_prev_cursor) ==
  LET Response(prev_cursor, next_cursor) ==
        IF ~prev_cursor.ok \/ ~next_cursor.ok THEN Raised("CursorError")
        ELSE Page(total_size, prev_cursor.v, next_cursor.v, items)
  IN  Response(IF Len(items) > 0 /\ (has_previous \/ include_prev_cursor)
               THEN encode_cursor_values(order_fields, field_names, items[1], PREV)
               ELSE Ok(None),
               IF Len(items) > 0 /\ has_next
               THEN encode_cursor_values(order_fields, field_names, items[Len(items)], NEXT)
               ELSE Ok(None))

(***************************************************************************)
(* sqlalchemy/keyset.py, django/keyset.py, sqlalchemy/pagination.py        *)
(***************************************************************************)

\* extract_order_fields_from_query without the check for an empty ORDER BY.
extract_order_fields_from_query_unchecked(q) == Ok(q.order_by)

\* extract_order_fields_from_query: the (field, direction) pairs of the
\* query's ORDER BY clauses; a query without any raises ValueError.
extract_order_fields_from_query(q) ==
  IF Len(q.order_by) = 0 THEN Raise("ValueError") ELSE Ok(q.order_by)

\* reverse_ordering that leaves the ordering as it is.
reverse_ordering_kept(order_by) == order_by

\* reverse_ordering: every clause's direction flipped.
reverse_ordering(order_by) ==
  [i \in 1..Len(order_by) |->
     <<order_by[i][1], IF order_by[i][2] = "desc" THEN "asc" ELSE "desc">>]

\* The paginator the module-level paginate constructs.
NewPaginator ==
  [order_fields |-> << <<<<"_", "d", "u", "m", "m", "y">>, "asc">> >>,
   field_names |-> << <<"_", "d", "u", "m", "m", "y">> >>]

NoLocals ==
  [has_cursor |-> FALSE, cursor_values |-> <<>>, direction |-> NEXT, total_size |-> 0,
   has_more |-> FALSE, has_previous |-> FALSE, has_next |-> FALSE]

\* Begin with the count query issued before the cursor is decoded.
Begin_count_first(q, opts, how) ==
  LET extracted == extract_order_fields_from_query(q)
      order_fields == IF extracted.ok THEN extracted.v ELSE NewPaginator.order_fields
      field_names == IF extracted.ok THEN FieldNames(extracted.v)
                     ELSE NewPaginator.field_names
      Decoded(decoded) ==
        IF ~extracted.ok
        THEN /\ pc' = "done"
             /\ calls' = <<>>
             /\ result' = Raised(extracted.err)
             /\ locals' = NoLocals
        ELSE IF ~decoded.ok
        THEN /\ pc' = "done"
             /\ calls' = <<"count">>
             /\ result' = Raised(decoded.err)
             /\ locals' = NoLocals
        ELSE /\ pc' = "count"
             /\ calls' = <<>>
             /\ result' = NoResult
             /\ locals' = [NoLocals EXCEPT !.has_cursor = decoded.v.has_cursor,
                                           !.cursor_values = decoded.v.cursor_values,
                                           !.direction = decoded.v.direction]
  IN  /\ query' = q
      /\ options' = opts
      /\ via' = how
      /\ self' = [order_fields |-> order_fields, field_names |-> field_names]
      /\ Decoded(decode_cursor_values(order_fields, field_names, opts.cursor))
      /\ UNCHANGED <<rows, call>>

\* paginate up to its first backend call: the ordering is read off the query
\* into the paginator, then the cursor is decoded and validated.
Begin(q, opts, how) ==
  LET extracted == extract_order_fields_from_query(q)
      order_fields == IF extracted.ok THEN extracted.v ELSE NewPaginator.order_fields
      field_names == IF extracted.ok THEN FieldNames(extracted.v)
                     ELSE NewPaginator.field_names
      Decoded(decoded) ==
        IF ~extracted.ok
        THEN /\ pc' = "done"
             /\ result' = Raised(extracted.err)
             /\ locals' = NoLocals
        ELSE IF ~decoded.ok
        THEN /\ pc' = "done"
             /\ result' = Raised(decoded.err)
             /\ locals' = NoLocals
        ELSE /\ pc' = "count"
             /\ result' = NoResult
             /\ locals' = [NoLocals EXCEPT !.has_cursor = decoded.v.has_cursor,
                                           !.cursor_values = decoded.v.cursor_values,
                                           !.direction = decoded.v.direction]
  IN  /\ query' = q
      /\ options' = opts
      /\ via' = how
      /\ calls' = <<>>
      /\ self' = [order_fields |-> order_fields, field_names |-> field_names]
      /\ Decoded(decode_cursor_values(order_fields, field_names, opts.cursor))
      /\ UNCHANGED <<rows, call>>

\* SeekRows with the seek predicate left out of the items query.
SeekRows_unsought == BaseRows(query)

\* The rows the items query selects: the base query and, with cursor values,
\* the seek predicate.
SeekRows ==
  IF locals.has_cursor /\ Len(locals.cursor_values) > 0
  THEN {r \in BaseRows(query) :
          EvalConditions(build_cursor_filter_conditions(
                           self.order_fields, locals.cursor_values,
                           locals.direction = PREV), r)}
  ELSE BaseRows(query)

\* Every cursor value the seek predicate uses is one the backend compares.
SeekComparable ==
  \/ ~(locals.has_cursor /\ Len(locals.cursor_values) > 0)
  \/ \A i \in 1..Len(self.field_names) :
       Comparable(DictGet(locals.cursor_values, self.field_names[i]))

\* The count query run over the query with the seek predicate.
CountSought ==
  /\ pc = "count"
  /\ pc' = "fetch"
  /\ calls' = Append(calls, "count")
  /\ locals' = [locals EXCEPT !.total_size = Cardinality(SeekRows)]
  /\ UNCHANGED <<rows, query, self, options, result, via, trail, call>>

\* The count query over the base query.
Count ==
  /\ pc = "count"
  /\ pc' = "fetch"
  /\ calls' = Append(calls, "count")
  /\ locals' = [locals EXCEPT !.total_size = Cardinality(BaseRows(query))]
  /\ UNCHANGED <<rows, query, self, options, result, via, trail, call>>

\* Flags with has_previous taken from the cursor in both directions.
FlagsOfCursor(fetched) ==
  LET has_more == Len(fetched) > options.size
  IN  [has_more |-> has_more,
       has_previous |-> locals.has_cursor,
       has_next |-> IF locals.direction = PREV THEN TRUE ELSE has_more]

\* Flags with has_more set as soon as the items query fills the page.
Flags_at_least(fetched) ==
  LET is_prev == locals.direction = PREV
      has_more == Len(fetched) >= options.size
  IN  [has_more |-> has_more,
       has_previous |-> IF is_prev THEN has_more ELSE locals.has_cursor,
       has_next |-> IF is_prev THEN TRUE ELSE has_more]

\* has_more, has_previous and has_next after the items query returned
\* `fetched`.
Flags(fetched) ==
  LET is_prev == locals.direction = PREV
      has_more == Len(fetched) > options.size
  IN  [has_more |-> has_more,
       has_previous |-> IF is_prev THEN has_more ELSE locals.has_cursor,
       has_next |-> IF is_prev THEN TRUE ELSE has_more]

\* Assemble without the reversal of a backward page.
Assemble_unreversed(fetched) ==
  LET flags == Flags(fetched)
      items == IF flags.has_more THEN SubSeq(fetched, 1, options.size) ELSE fetched
  IN  create_paginated_response(self.order_fields, self.field_names, items,
                                locals.total_size, options.size, flags.has_previous,
                                flags.has_next, options.include_prev_cursor)

\* paginate after the items query returned `fetched`.
Assemble(fetched) ==
  LET is_prev == locals.direction = PREV
      flags == Flags(fetched)
      trimmed == IF flags.has_more THEN SubSeq(fetched, 1, options.size) ELSE fetched
      items == IF is_prev THEN Reverse(trimmed) ELSE trimmed
  IN  create_paginated_response(self.order_fields, self.field_names, items,
                                locals.total_size, options.size, flags.has_previous,
                                flags.has_next, options.include_prev_cursor)

\* The items query and the assembly of the page.
Fetch ==
  /\ pc = "fetch"
  /\ pc' = "done"
  /\ calls' = Append(calls, "items")
  /\ LET order == IF locals.direction = PREV
                  THEN reverse_ordering(query.order_by) ELSE query.order_by
     IN  \/ \E sorted \in Ordered(SeekRows, order) :
              LET fetched == SubSeq(sorted, 1, Min(Len(sorted), options.size + 1))
                  flags == Flags(fetched)
              IN  /\ result' = Assemble(fetched)
                  /\ locals' = [locals EXCEPT !.has_more = flags.has_more,
                                              !.has_previous = flags.has_previous,
                                              !.has_next = flags.has_next]
         \/ /\ ~SeekComparable
            /\ result' = Raised("BackendError")
            /\ UNCHANGED locals
  /\ trail' = IF result'.kind = "page" /\ via \in {"first", "next", "prev"}
              THEN Append(trail, [via |-> via, page |-> result', rows |-> rows])
              ELSE <<>>
  /\ UNCHANGED <<rows, query, self, options, via, call>>

(***************************************************************************)
(* The client                                                              *)
(***************************************************************************)

Directions == {"asc", "desc"}

\* The ORDER BY clauses a query may carry: one or two distinct fields, each in
\* either direction.
Orderings ==
  { <<<<f, d>>>> : f \in Fields, d \in Directions }
  \cup { <<<<fs[1], d1>>, <<fs[2], d2>>>> :
           fs \in {p \in Fields \X Fields : p[1] # p[2]},
           d1 \in Directions, d2 \in Directions }

\* The filters a query may carry: none, or a = 0.
Filters == { <<>>, << << <<FieldA, "=", PyInt(0)>> >> >> }

NoCall == [fn |-> "none"]

\* Every ORDER BY a query may carry, and none at all.
QueryOrderings == Orderings \cup {<<>>}

Init ==
  /\ rows \in Tables
  /\ \E w \in Filters : query = [order_by |-> <<>>, where |-> w]
  /\ self = NewPaginator
  /\ options = [cursor |-> None, size |-> 1, include_prev_cursor |-> FALSE]
  /\ pc = "idle"
  /\ locals = NoLocals
  /\ calls = <<>>
  /\ result = NoResult
  /\ via = "none"
  /\ trail = <<>>
  /\ call = NoCall

\* The first page of a walk: no cursor.
StartWalk ==
  /\ pc = "idle"
  /\ \E order \in QueryOrderings, size \in 1..MaxSize, ipc \in BOOLEAN :
       Begin([query EXCEPT !.order_by = order],
             [cursor |-> None, size |-> size, include_prev_cursor |-> ipc], "first")
  /\ trail' = <<>>

OnPage == pc = "done" /\ result.kind = "page" /\ Len(trail) >= 1

\* The client follows the next cursor of the page it holds.
FollowNext ==
  /\ OnPage
  /\ Len(trail) < MaxSteps
  /\ result.next # None
  /\ Begin(query, [options EXCEPT !.cursor = result.next], "next")
  /\ UNCHANGED trail

\* The client follows the prev cursor of the page it holds.
FollowPrev ==
  /\ OnPage
  /\ Len(trail) < MaxSteps
  /\ result.prev # None
  /\ Begin(query, [options EXCEPT !.cursor = result.prev], "prev")
  /\ UNCHANGED trail

Next == StartWalk \/ FollowNext \/ FollowPrev \/ Count \/ Fetch

Spec == Init /\ [][Next]_vars

\* The client takes a cursor of the page it holds to the same query under
\* another ordering.
Reorder ==
  /\ OnPage
  /\ \E c \in {result.next, result.prev} \ {None}, order \in Orderings \ {query.order_by} :
       Begin([query EXCEPT !.order_by = order], [options EXCEPT !.cursor = c], "foreign")
  /\ trail' = <<>>

NextBinding == StartWalk \/ FollowNext \/ FollowPrev \/ Reorder \/ Count \/ Fetch

SpecBinding == Init /\ [][NextBinding]_vars

\* The table of the tampering client: two rows.
TamperTable == { [f \in Fields |-> IF f = FieldId THEN i ELSE 2 - i] : i \in 1..2 }

\* The characters a tampering client writes into a cursor: the base64
\* alphabet, the pad, a character the decoder skips and the standard
\* alphabet's 62nd character.
TamperChars == {UrlSafeAlphabet[i] : i \in 1..64} \cup {"=", "!", "+"}

\* Strings that are no cursor of the paginator: empty, blank, not base64, and
\* the base64 of "{}".
RawCursors == { <<>>, <<" ">>, <<"x">>, <<"e", "3", "0">>, <<"e", "3", "0", "=">> }

InitTamper == Init /\ rows = TamperTable /\ query.where = <<>>

\* The client changes or drops one character of a cursor of the first page.
Tamper ==
  /\ OnPage
  /\ Len(trail) = 1
  /\ options.size = 1
  /\ \E c \in {result.next, result.prev} \ {None} :
       \E p \in 1..Len(c) :
         \/ \E ch \in TamperChars \ {c[p]} :
              Begin(query, [options EXCEPT !.cursor = [c EXCEPT ![p] = ch]], "tampered")
         \/ Begin(query,
                  [options EXCEPT !.cursor = SubSeq(c, 1, p - 1) \o SubSeq(c, p + 1, Len(c))],
                  "tampered")
  /\ trail' = <<>>

\* The client supplies a string that never was a cursor.
SupplyRaw ==
  /\ OnPage
  /\ Len(trail) = 1
  /\ \E c \in RawCursors : Begin(query, [options EXCEPT !.cursor = c], "raw")
  /\ trail' = <<>>

NextTamper == StartWalk \/ FollowNext \/ FollowPrev \/ Tamper \/ SupplyRaw \/ Count \/ Fetch

SpecTamper == InitTamper /\ [][NextTamper]_vars

\* The client takes a cursor of the page it holds, or a string that never was
\* a cursor, to the same query without its ORDER BY.
Unorder ==
  /\ OnPage
  /\ \E c \in ({result.next, result.prev} \ {None}) \cup RawCursors :
       Begin([query EXCEPT !.order_by = <<>>], [options EXCEPT !.cursor = c], "unordered")
  /\ trail' = <<>>

NextUnordered == StartWalk \/ FollowNext \/ FollowPrev \/ Unorder \/ Count \/ Fetch

SpecUnordered == Init /\ [][NextUnordered]_vars

\* The tables of a feed: rows with distinct ids among 1..MaxRows, any value of
\* a on each.
FeedTables ==
  { { [f \in Fields |-> IF f = FieldId THEN i ELSE av[i]] : i \in ids }
      : ids \in SUBSET (1..MaxRows), av \in [1..MaxRows -> 0..MaxA] }

InitFeed ==
  /\ rows \in FeedTables
  /\ \E w \in Filters : query = [order_by |-> <<>>, where |-> w]
  /\ self = NewPaginator
  /\ options = [cursor |-> None, size |-> 1, include_prev_cursor |-> FALSE]
  /\ pc = "idle"
  /\ locals = NoLocals
  /\ calls = <<>>
  /\ result = NoResult
  /\ via = "none"
  /\ trail = <<>>
  /\ call = NoCall

\* Another session inserts a row under an id the table does not hold yet,
\* between two calls or between the two queries of a call.
Insert ==
  /\ pc # "idle"
  /\ \E i \in 1..MaxRows, a \in 0..MaxA :
       /\ \A r \in rows : r[FieldId] # i
       /\ rows' = rows \cup {[f \in Fields |-> IF f = FieldId THEN i ELSE a]}
  /\ UNCHANGED <<query, self, options, pc, locals, calls, result, via, trail, call>>

NextFeed == StartWalk \/ Insert \/ FollowPrev \/ Count \/ Fetch

SpecFeed == InitFeed /\ [][NextFeed]_vars

(***************************************************************************)
(* Cancellation and concurrent calls                                       *)
(***************************************************************************)

\* The caller cancels paginate_async while it waits for the count query or
\* for the items query: the await raises CancelledError and the call ends.
Cancel ==
  /\ pc \in {"count", "fetch"}
  /\ pc' = "done"
  /\ result' = Raised("CancelledError")
  /\ trail' = <<>>
  /\ UNCHANGED <<rows, query, self, options, locals, calls, via, call>>

NextCancel == StartWalk \/ FollowNext \/ FollowPrev \/ Cancel \/ Count \/ Fetch

SpecCancel == Init /\ [][NextCancel]_vars

\* Two paginate_async calls on one event loop.  The variables of the call
\* hold the call that runs; `call` holds the frame of the other, which waits
\* to start, is suspended at one of its two awaits, or has returned.
TaskFrame ==
  [query |-> query, self |-> self, options |-> options, pc |-> pc,
   locals |-> locals, calls |-> calls, result |-> result, via |-> via]

\* The table the two calls read: three rows, two of them equal on a.
ConcurrentTable ==
  { [f \in Fields |-> IF f = FieldId THEN i ELSE (IF i = 3 THEN 1 ELSE 0)] : i \in 1..3 }

\* The orderings of the two calls: on the key, on a alone (with ties), and on
\* both fields.
ConcurrentOrderings ==
  { << <<FieldId, "desc">> >>, << <<FieldA, "asc">> >>,
    << <<FieldA, "desc">>, <<FieldId, "asc">> >> }

\* The cursors a call is given: none, and the cursors the paginator issues
\* for the middle row under the ordering `order`, in either direction.
ConcurrentCursors(order) ==
  {None} \cup { encode_cursor_values(order, FieldNames(order), r, d).v :
                  r \in {x \in rows : x[FieldId] = 2}, d \in {NEXT, PREV} }

InitConcurrent ==
  /\ rows = ConcurrentTable
  /\ query = [order_by |-> <<>>, where |-> <<>>]
  /\ self = NewPaginator
  /\ options = [cursor |-> None, size |-> 1, include_prev_cursor |-> FALSE]
  /\ pc = "idle"
  /\ locals = NoLocals
  /\ calls = <<>>
  /\ result = NoResult
  /\ via = "none"
  /\ trail = <<>>
  /\ \E w \in Filters :
       call = [fn |-> "task", running |-> 1, overlap |-> FALSE,
               frame |-> [query |-> [order_by |-> <<>>, where |-> w], self |-> NewPaginator,
                          options |-> [cursor |-> None, size |-> 1,
                                       include_prev_cursor |-> FALSE],
                          pc |-> "idle", locals |-> NoLocals, calls |-> <<>>,
                          result |-> NoResult, via |-> "none"]]

\* paginate_async(db, query, options) is called: a paginator is built for the
\* call, which runs up to its first await.
CallAsync ==
  /\ pc = "idle"
  /\ \E order \in ConcurrentOrderings, size \in 1..MaxSize :
       \E c \in ConcurrentCursors(order) \cup ConcurrentCursors(<< <<FieldId, "asc">> >>) :
         Begin([query EXCEPT !.order_by = order],
               [cursor |-> c, size |-> size, include_prev_cursor |-> TRUE], "async")
  /\ trail' = <<>>

\* The paginator object a resumed call works with: the one built for it.
PaginatorOf_shared(frame) == self

PaginatorOf(frame) == frame.self

\* The event loop suspends the call that runs, at an await or before or after
\* the call, and resumes the other.
Switch ==
  /\ call.fn = "task"
  /\ call' = [call EXCEPT !.running = 3 - @,
                          !.overlap = @ \/ (pc \in {"count", "fetch"}
                                            /\ call.frame.pc \in {"count", "fetch"}),
                          !.frame = TaskFrame]
  /\ query' = call.frame.query
  /\ self' = PaginatorOf(call.frame)
  /\ options' = call.frame.options
  /\ pc' = call.frame.pc
  /\ locals' = call.frame.locals
  /\ calls' = call.frame.calls
  /\ result' = call.frame.result
  /\ via' = call.frame.via
  /\ UNCHANGED <<rows, trail>>

NextConcurrent == CallAsync \/ Switch \/ Count \/ Fetch

SpecConcurrent == InitConcurrent /\ [][NextConcurrent]_vars

\* Two paginate_async calls on one SQLAlchemyKeysetPaginator object that the
\* caller built: the event loop suspends the call that runs and resumes the
\* other, which finds in the object what the call that ran last wrote there.
SwitchShared ==
  /\ call.fn = "task"
  /\ call' = [call EXCEPT !.running = 3 - @,
                          !.overlap = @ \/ (pc \in {"count", "fetch"}
                                            /\ call.frame.pc \in {"count", "fetch"}),
                          !.frame = TaskFrame]
  /\ query' = call.frame.query
  /\ options' = call.frame.options
  /\ pc' = call.frame.pc
  /\ locals' = call.frame.locals
  /\ calls' = call.frame.calls
  /\ result' = call.frame.result
  /\ via' = call.frame.via
  /\ UNCHANGED <<rows, self, trail>>

\* The count query returns and the call runs on to its second await: with
\* cursor values apply_cursor_filter builds the seek predicate from the
\* paginator's order_fields as they are at that moment, and a field without
\* a cursor value raises KeyError.
CountShared ==
  /\ pc = "count"
  /\ calls' = Append(calls, "count")
  /\ LET seeks == locals.has_cursor /\ Len(locals.cursor_values) > 0
         Ran(to, out, seek) ==
           /\ pc' = to
           /\ result' = out
           /\ locals' = [has_cursor |-> locals.has_cursor,
                         cursor_values |-> locals.cursor_values,
                         direction |-> locals.direction,
                         total_size |-> Cardinality(BaseRows(query)),
                         has_more |-> locals.has_more,
                         has_previous |-> locals.has_previous,
                         has_next |-> locals.has_next,
                         seek |-> seek]
     IN  IF ~seeks THEN Ran("fetch", result, [on |-> FALSE, conditions |-> <<>>])
         ELSE IF \E i \in 1..Len(self.field_names) :
                   self.field_names[i] \notin DictKeys(locals.cursor_values)
         THEN Ran("done", Raised("KeyError"), [on |-> FALSE, conditions |-> <<>>])
         ELSE Ran("fetch", result,
                  [on |-> TRUE,
                   conditions |-> build_cursor_filter_conditions(
                                    self.order_fields, locals.cursor_values,
                                    locals.direction = PREV)])
  /\ UNCHANGED <<rows, query, self, options, via, trail, call>>

\* The items query returns: the rows of the query under the seek predicate
\* built after the count, in the query's own ORDER BY, and the page assembled
\* with the paginator's order_fields as they are now.
FetchShared ==
  /\ pc = "fetch"
  /\ pc' = "done"
  /\ calls' = Append(calls, "items")
  /\ LET Returned(sorted) ==
           LET Assembled(fetched) ==
                 /\ result' = Assemble(fetched)
                 /\ locals' = [locals EXCEPT !.has_more = Flags(fetched).has_more,
                                             !.has_previous = Flags(fetched).has_previous,
                                             !.has_next = Flags(fetched).has_next]
           IN  Assembled(SubSeq(sorted, 1, Min(Len(sorted), options.size + 1)))
     IN  \E sorted \in Ordered(IF locals.seek.on
                               THEN {r \in BaseRows(query) :
                                       EvalConditions(locals.seek.conditions, r)}
                               ELSE BaseRows(query),
                               IF locals.direction = PREV
                               THEN reverse_ordering(query.order_by)
                               ELSE query.order_by) :
           Returned(sorted)
  /\ UNCHANGED <<rows, query, self, options, via, trail, call>>

NextShared == CallAsync \/ SwitchShared \/ CountShared \/ FetchShared

SpecShared == InitConcurrent /\ [][NextShared]_vars

\* The cursors a client sends when it has none: the empty string, and strings
\* of whitespace alone.
BlankCursors == { <<>>, <<" ">>, <<"\t">>, <<" ", "\n">>, <<"\r", " ", " ">> }

\* paginate is called with an empty or a whitespace cursor.
SupplyBlank ==
  /\ pc = "idle"
  /\ \E order \in QueryOrderings, size \in 1..MaxSize, ipc \in BOOLEAN :
       \E c \in BlankCursors :
         Begin([query EXCEPT !.order_by = order],
               [cursor |-> c, size |-> size, include_prev_cursor |-> ipc], "raw")
  /\ trail' = <<>>

NextBlank == SupplyBlank \/ Count \/ Fetch

SpecBlank == Init /\ [][NextBlank]_vars

\* Every variable but `call`.
paginator == <<rows, query, self, options, pc, locals, calls, result, via, trail>>

(***************************************************************************)
(* django/keyset.py                                                        *)
(***************************************************************************)

\* The order_by of the Django QuerySet that carries the clauses `order_by`:
\* "name" for an ascending clause, "-name" for a descending one.
DjangoOrderBy(order_by) ==
  [i \in 1..Len(order_by) |->
     IF order_by[i][2] = "desc" THEN <<"-">> \o order_by[i][1] ELSE order_by[i][1]]

\* The QuerySet over the table with the filter and the ordering of query q.
DjangoQuerySet(q) == [order_by |-> DjangoOrderBy(q.order_by), where |-> q.where]

\* DjangoKeysetPaginator.extract_order_fields_from_query with every field
\* read as ascending.
django_extract_order_fields_from_query_ascending(queryset) ==
  IF Len(queryset.order_by) = 0 THEN Raise("ValueError")
  ELSE Ok([i \in 1..Len(queryset.order_by) |->
             IF Len(queryset.order_by[i]) >= 1 /\ queryset.order_by[i][1] = "-"
             THEN <<Tail(queryset.order_by[i]), "asc">>
             ELSE <<queryset.order_by[i], "asc">>])

\* DjangoKeysetPaginator.extract_order_fields_from_query.
django_extract_order_fields_from_query(queryset) ==
  IF Len(queryset.order_by) = 0 THEN Raise("ValueError")
  ELSE Ok([i \in 1..Len(queryset.order_by) |->
             IF Len(queryset.order_by[i]) >= 1 /\ queryset.order_by[i][1] = "-"
             THEN <<Tail(queryset.order_by[i]), "desc">>
             ELSE <<queryset.order_by[i], "asc">>])

\* DjangoKeysetPaginator.reverse_ordering: the leading "-" dropped or added.
django_reverse_ordering(queryset) ==
  [queryset EXCEPT !.order_by =
     [i \in 1..Len(queryset.order_by) |->
        IF Len(queryset.order_by[i]) >= 1 /\ queryset.order_by[i][1] = "-"
        THEN Tail(queryset.order_by[i])
        ELSE <<"-">> \o queryset.order_by[i]]]

\* The lookup DjangoKeysetPaginator.apply_cursor_filter writes for an operator.
DjangoLookup(operator) ==
  CASE operator = ">" -> "gt"
    [] operator = "<" -> "lt"
    [] operator = "=" -> "exact"

\* DjangoKeysetPaginator.apply_cursor_filter: the Q object, an OR over the
\* groups of an AND of (field, lookup, value) inside each.
django_apply_cursor_filter(order_fields, cursor_values, is_prev) ==
  LET Lookups(groups) ==
        [g \in 1..Len(groups) |->
           [c \in 1..Len(groups[g]) |->
              <<groups[g][c][1], DjangoLookup(groups[g][c][2]), groups[g][c][3]>>]]
  IN  Lookups(build_cursor_filter_conditions(order_fields, cursor_values, is_prev))

\* The rows a Q object selects; an empty Q selects every row.
DjangoFilter(S, q_object) ==
  { r \in S :
      \/ Len(q_object) = 0
      \/ \E g \in 1..Len(q_object) :
           \A c \in 1..Len(q_object[g]) :
             CASE q_object[g][c][2] = "gt" -> r[q_object[g][c][1]] > q_object[g][c][3].n
               [] q_object[g][c][2] = "lt" -> r[q_object[g][c][1]] < q_object[g][c][3].n
               [] q_object[g][c][2] = "exact" -> r[q_object[g][c][1]] = q_object[g][c][3].n }

\* Every list the backend may return for a QuerySet over the rows S: sorted
\* by its order_by, "-name" descending.
DjangoOrdered(S, order_by) ==
  Ordered(S, [i \in 1..Len(order_by) |->
                IF order_by[i][1] = "-" THEN <<Tail(order_by[i]), "desc">>
                ELSE <<order_by[i], "asc">>])

\* DjangoKeysetPaginator.paginate(queryset, options): the exception raised, or
\* a page for each list the backend may return.
django_paginate(queryset, opts) ==
  LET extracted == django_extract_order_fields_from_query(queryset)
      Run(order_fields, field_names, decoded) ==
        IF ~decoded.ok THEN {Raised(decoded.err)}
        ELSE
          LET is_prev == decoded.v.direction = PREV
              total_size == Cardinality(BaseRows(queryset))
              Respond(items) ==
                LET has_more == Len(items) > opts.size
                    trimmed == SubSeq(items, 1, Min(Len(items), opts.size))
                IN  create_paginated_response(
                      order_fields, field_names,
                      IF is_prev THEN Reverse(trimmed) ELSE trimmed,
                      total_size, opts.size,
                      IF is_prev THEN has_more ELSE decoded.v.has_cursor,
                      IF is_prev THEN TRUE ELSE has_more,
                      opts.include_prev_cursor)
              Slice(S, order_by) ==
                { Respond(SubSeq(p, 1, Min(Len(p), opts.size + 1)))
                    : p \in DjangoOrdered(S, order_by) }
          IN  Slice(IF decoded.v.has_cursor /\ Len(decoded.v.cursor_values) > 0
                    THEN DjangoFilter(BaseRows(queryset),
                                      django_apply_cursor_filter(
                                        order_fields, decoded.v.cursor_values, is_prev))
                    ELSE BaseRows(queryset),
                    IF is_prev THEN django_reverse_ordering(queryset).order_by
                    ELSE queryset.order_by)
  IN  IF ~extracted.ok THEN {Raised(extracted.err)}
      ELSE Run(extracted.v, FieldNames(extracted.v),
               decode_cursor_values(extracted.v, FieldNames(extracted.v), opts.cursor))

\* After a call of the SQLAlchemy paginate, the Django paginate is called on
\* the same table with the same filter, ordering and options.
DjangoPaginate ==
  /\ pc = "done"
  /\ \E out \in django_paginate(DjangoQuerySet(query), options) :
       call' = [fn |-> "django", queryset |-> DjangoQuerySet(query),
                options |-> options, out |-> out]
  /\ UNCHANGED paginator

NextBackends == StartWalk \/ FollowNext \/ FollowPrev \/ Count \/ Fetch \/ DjangoPaginate

SpecBackends == Init /\ [][NextBackends]_vars

(***************************************************************************)
(* Direct calls of the library's functions                                 *)
(***************************************************************************)

\* No paginate call is under way and none has been made.
Quiet ==
  /\ rows = {}
  /\ query = [order_by |-> <<>>, where |-> <<>>]
  /\ self = NewPaginator
  /\ options = [cursor |-> None, size |-> 1, include_prev_cursor |-> FALSE]
  /\ pc = "idle"
  /\ locals = NoLocals
  /\ calls = <<>>
  /\ result = NoResult
  /\ via = "none"
  /\ trail = <<>>

\* Field names given to the codec: plain, a sign character, a name that
\* starts with a sign, one with a quote and a backslash, one outside ASCII.
CodecNames ==
  { <<"a">>, <<"i", "d">>, <<"+">>, <<"-", "x">>, <<"\"", "\\">>, <<HighChar>> }

\* Values given to the codec: integers of either sign and of several digits,
\* and strings: empty, digits only, with characters JSON escapes.
CodecValues ==
  { PyInt(0), PyInt(-12), PyInt(1000),
    PyStr(<<>>), PyStr(<<"7">>), PyStr(<<"\"", "\\", "/">>),
    PyStr(<<HighChar, "\n", CtlChar>>) }

\* Orderings given to the codec: one or two pairs; a name may repeat.
CodecOrderings ==
  { <<<<n, d>>>> : n \in CodecNames, d \in Directions }
  \cup { <<<<n1, d1>>, <<n2, d2>>>> :
           n1 \in {<<"a">>, <<"-", "x">>, <<"\"", "\\">>}, d1 \in Directions,
           n2 \in {<<"a">>, <<"i", "d">>, <<"+">>}, d2 \in Directions }

\* The values maps for an ordering: a value for each of its fields, in either
\* key order, and possibly a value for a field the ordering does not have.
CodecValueMaps(o) ==
  LET names == {o[i][1] : i \in 1..Len(o)}
      extra == <<"z">>
      maps == [names -> CodecValues]
      seqs(m) ==
        IF Cardinality(names) = 1
        THEN { << <<o[1][1], m[o[1][1]]>> >> }
        ELSE { << <<o[1][1], m[o[1][1]]>>, <<o[2][1], m[o[2][1]]>> >>,
               << <<o[2][1], m[o[2][1]]>>, <<o[1][1], m[o[1][1]]>> >> }
  IN  UNION { seqs(m) \cup { Append(kv, <<extra, PyInt(1)>>) : kv \in seqs(m) }
              : m \in maps }

NoArgs == [o |-> <<>>, v |-> <<>>, d |-> NEXT]

CodecCall(fn, args, cursor, out) ==
  [fn |-> fn, args |-> args, cursor |-> cursor, out |-> out]

InitCodec ==
  /\ Quiet
  /\ \E o \in CodecOrderings, d \in {NEXT, PREV} :
       \E v \in CodecValueMaps(o) :
         call = CodecCall("args", [o |-> o, v |-> v, d |-> d], None, Fail)

\* encode_cursor(o, v, d).
Encode ==
  /\ call.fn = "args"
  /\ LET e == encode_cursor(call.args.o, call.args.v, call.args.d) IN
     call' = IF e.ok THEN CodecCall("encoded", call.args, e.v, Fail)
             ELSE CodecCall("raised", call.args, None, e)
  /\ UNCHANGED paginator

\* decode_cursor of the string encode_cursor returned.
Decode ==
  /\ call.fn = "encoded"
  /\ call' = CodecCall("decoded", call.args, call.cursor, decode_cursor(call.cursor))
  /\ UNCHANGED paginator

NextCodec == Encode \/ Decode

SpecCodec == InitCodec /\ [][NextCodec]_vars

\* Arguments given to encode_cursor alone: orderings of no, one and two
\* pairs; values maps that are empty, hold every field of the ordering, lack
\* one or hold a field the ordering does not have; the two directions and a
\* string that is neither.
EncodeOrderings ==
  { <<>> }
  \cup { <<<<n, d>>>> : n \in {<<"a">>, <<"i", "d">>}, d \in Directions }
  \cup { << <<<<"a">>, d1>>, <<<<"i", "d">>, d2>> >> : d1 \in Directions, d2 \in Directions }

EncodeKeys == { <<"a">>, <<"i", "d">>, <<"z">> }

EncodeValueMaps ==
  LET vals == { PyInt(0), PyStr(<<"7">>) }
      keys(n) == { ks \in [1..n -> EncodeKeys] : \A i, j \in 1..n : i # j => ks[i] # ks[j] }
  IN  UNION { { [i \in 1..n |-> <<ks[i], vs[i]>>] : ks \in keys(n), vs \in [1..n -> vals] }
              : n \in 0..3 }

EncodeDirections == { NEXT, PREV, <<"u", "p">> }

InitEncode ==
  /\ Quiet
  /\ \E o \in EncodeOrderings, v \in EncodeValueMaps, d \in EncodeDirections :
       call = CodecCall("args", [o |-> o, v |-> v, d |-> d], None, Fail)

SpecEncode == InitEncode /\ [][NextCodec]_vars

\* The values found under "o" in the payloads given to decode_cursor: lists of
\* well-formed tokens, the empty list, values that are no list, and lists with
\* a token that is empty, one character long, without a sign, or no string.
PayloadOrderings ==
  { PyList(<<PyStr(<<"+", "a">>)>>),
    PyList(<<PyStr(<<"-", "a">>), PyStr(<<"+", "i", "d">>)>>),
    PyList(<<>>),
    PyStr(<<"+", "a">>), PyInt(1), PyNone, PyDict(<<>>),
    PyList(<<PyStr(<<>>)>>), PyList(<<PyStr(<<"+">>)>>), PyList(<<PyStr(<<"a">>)>>),
    PyList(<<PyStr(<<"*", "a">>)>>), PyList(<<PyStr(<<"a", "b">>)>>),
    PyList(<<PyInt(1)>>),
    PyList(<<PyStr(<<"+", "a">>), PyStr(<<"x">>)>>) }

\* The values found under "v": objects, and values that are no object.
PayloadValues ==
  { PyDict(<< <<<<"a">>, PyInt(1)>> >>), PyDict(<<>>),
    PyList(<<>>), PyInt(1), PyNone, PyStr(<<"a">>) }

\* The values found under "d": the two directions, other strings, and values
\* that are no string.
PayloadDirections ==
  { PyStr(NEXT), PyStr(PREV), PyStr(<<"u", "p">>), PyStr(<<>>),
    PyStr(<<"N", "E", "X", "T">>), PyInt(1), PyNone, PyList(<<PyStr(NEXT)>>) }

\* The JSON payloads given to decode_cursor: objects with any of the keys o,
\* v and d present or missing, and values that are no object.
DecodePayloads ==
  LET o1 == PyList(<<PyStr(<<"+", "a">>)>>)
      v1 == PyDict(<< <<<<"a">>, PyInt(1)>> >>)
  IN  { PyDict(<< <<KeyO, o>>, <<KeyV, v1>> >>) : o \in PayloadOrderings }
      \cup { PyDict(<< <<KeyO, o1>>, <<KeyV, v>> >>) : v \in PayloadValues }
      \cup { PyDict(<< <<KeyO, o1>>, <<KeyV, v1>>, <<KeyD, d>> >>) : d \in PayloadDirections }
      \cup { PyDict(<< <<KeyO, o>>, <<KeyV, v1>>, <<KeyD, PyStr(PREV)>> >>) :
               o \in PayloadOrderings }
      \cup { PyDict(<<>>), PyDict(<< <<KeyO, o1>> >>), PyDict(<< <<KeyV, v1>> >>),
             PyDict(<< <<KeyD, PyStr(NEXT)>> >>),
             PyDict(<< <<KeyO, o1>>, <<KeyD, PyStr(NEXT)>> >>),
             PyDict(<< <<KeyV, v1>>, <<KeyD, PyStr(NEXT)>> >>) }
      \cup { PyList(<<PyInt(1)>>), PyInt(7), PyStr(<<"x">>), PyNone, PyLit("true") }

\* Payloads that are no JSON text.
NonJsonTexts ==
  { <<"n", "o", "t", " ", "j", "s", "o", "n">>, <<"{">>,
    <<"{", "\"", "o", "\"", ":">>, <<"{", "'", "o", "'", ":", "1", "}">>,
    <<"{", "}", "x">> }

\* s with the character ch put in before position p.
InsertAt(s, p, ch) == SubSeq(s, 1, p - 1) \o <<ch>> \o SubSeq(s, p, Len(s))

\* The strings a client derives from the base64 text c of a payload: c itself,
\* c with a character outside the alphabet put in, c with a pad added, c
\* without its pads.
CursorForms(c) ==
  { [form |-> "plain", cursor |-> c],
    [form |-> "junk", cursor |-> InsertAt(c, 1, "!")],
    [form |-> "junk", cursor |-> InsertAt(c, (Len(c) \div 2) + 1, " ")],
    [form |-> "junk", cursor |-> InsertAt(c, (Len(c) \div 2) + 1, "\n")],
    [form |-> "junk", cursor |-> InsertAt(c, Len(c) + 1, "!")],
    [form |-> "padded", cursor |-> c \o <<"=">>],
    [form |-> "unpadded", cursor |-> SelectSeq(c, LAMBDA ch : ch # "=")] }

\* Strings that are the base64 text of no payload: empty, blank, one
\* character, characters outside the alphabet only, pads only, and the
\* base64 of a byte that is no UTF-8.
RawStrings ==
  { <<>>, <<" ">>, <<" ", "\t", "\n">>, <<"x">>, <<"!", "!", "!", "!">>,
    <<"=", "=", "=", "=">>, <<"_", "w", "=", "=">>, <<"e", "3", "0">> }

DecodeCall(fn, src, payload, form, cursor, out) ==
  [fn |-> fn, src |-> src, payload |-> payload, form |-> form, cursor |-> cursor, out |-> out]

InitDecode ==
  /\ Quiet
  /\ \/ \E p \in DecodePayloads :
          \E f \in CursorForms(urlsafe_b64encode(Utf8Encode(json_dumps(p)))) :
            call = DecodeCall("string", "value", p, f.form, f.cursor, Fail)
     \/ \E t \in NonJsonTexts :
          \E f \in CursorForms(urlsafe_b64encode(Utf8Encode(t))) :
            call = DecodeCall("string", "text", PyStr(t), f.form, f.cursor, Fail)
     \/ \E c \in RawStrings :
          call = DecodeCall("string", "raw", PyNone, "raw", c, Fail)

\* decode_cursor of the string.
DecodeString ==
  /\ call.fn = "string"
  /\ call' = [call EXCEPT !.fn = "decoded", !.out = decode_cursor(call.cursor)]
  /\ UNCHANGED paginator

NextDecode == DecodeString

SpecDecode == InitDecode /\ [][NextDecode]_vars

\* The columns of the rows given to the seek predicate.
SeekFields == { <<"a">>, <<"b">>, <<"c">> }

SeekValues == 0..MaxA

\* Orderings given to the seek predicate: one pair, two pairs (a field may
\* repeat), three pairs of distinct fields.
SeekOrderings ==
  { <<<<f, d>>>> : f \in SeekFields, d \in Directions }
  \cup { <<<<f1, d1>>, <<f2, d2>>>> :
           f1 \in SeekFields, f2 \in SeekFields, d1 \in Directions, d2 \in Directions }
  \cup { <<<<fs[1], ds[1]>>, <<fs[2], ds[2]>>, <<fs[3], ds[3]>>>> :
           fs \in {p \in SeekFields \X SeekFields \X SeekFields :
                     p[1] # p[2] /\ p[1] # p[3] /\ p[2] # p[3]},
           ds \in Directions \X Directions \X Directions }

\* The cursor values dict of a tuple of column values.
SeekDict(vals) ==
  << << <<"a">>, PyInt(vals[<<"a">>]) >>,
     << <<"b">>, PyInt(vals[<<"b">>]) >>,
     << <<"c">>, PyInt(vals[<<"c">>]) >> >>

InitSeek ==
  /\ Quiet
  /\ \E o \in SeekOrderings, V \in [SeekFields -> SeekValues],
        r \in [SeekFields -> SeekValues], is_prev \in BOOLEAN :
       call = [fn |-> "seek", order_fields |-> o, V |-> V, r |-> r,
               is_prev |-> is_prev, out |-> <<>>]

\* build_cursor_filter_conditions(cursor_values, is_prev) on a paginator with
\* the given order_fields.
BuildConditions ==
  /\ call.fn = "seek"
  /\ call' = [call EXCEPT
                !.fn = "conditions",
                !.out = build_cursor_filter_conditions(
                          call.order_fields, SeekDict(call.V), call.is_prev)]
  /\ UNCHANGED paginator

NextSeek == BuildConditions

SpecSeek == InitSeek /\ [][NextSeek]_vars

(***************************************************************************)
(* core/schemas.py                                                         *)
(***************************************************************************)

\* Sizes from MaxBeyond below the least allowed size to MaxBeyond above the
\* greatest are given to PageOptions.
MaxBeyond == 3

\* The declared fields of PageOptions.
OptionFields == {"cursor", "size", "include_prev_cursor"}

\* PageOptions(**kwargs) without the upper bound on size.
PageOptions_no_upper_bound(kwargs) ==
  LET size == IF "size" \in kwargs.given THEN kwargs.size ELSE 20
  IN  IF size < 1 THEN Raise("ValidationError")
      ELSE Ok([cursor |-> IF "cursor" \in kwargs.given THEN kwargs.cursor ELSE None,
               size |-> size,
               include_prev_cursor |-> IF "include_prev_cursor" \in kwargs.given
                                       THEN kwargs.include_prev_cursor ELSE FALSE])

\* PageOptions(**kwargs): cursor = Field(None), size = Field(20, ge=1, le=100),
\* include_prev_cursor = Field(False); a size out of range raises
\* ValidationError.
PageOptions(kwargs) ==
  LET size == IF "size" \in kwargs.given THEN kwargs.size ELSE 20
  IN  IF size < 1 \/ size > 100 THEN Raise("ValidationError")
      ELSE Ok([cursor |-> IF "cursor" \in kwargs.given THEN kwargs.cursor ELSE None,
               size |-> size,
               include_prev_cursor |-> IF "include_prev_cursor" \in kwargs.given
                                       THEN kwargs.include_prev_cursor ELSE FALSE])

\* Assignment to a field of a model that is not frozen.
PageOptions_setattr_unfrozen(obj, name, value) ==
  [out |-> Ok(None),
   obj |-> CASE name = "cursor" -> [obj EXCEPT !.cursor = value]
             [] name = "size" -> [obj EXCEPT !.size = value]
             [] name = "include_prev_cursor" -> [obj EXCEPT !.include_prev_cursor = value]]

\* options.<name> = value with model_config = {"frozen": True}: the
\* assignment raises ValidationError and the object stays as it is.
PageOptions_setattr(obj, name, value) ==
  [out |-> Raise("ValidationError"), obj |-> obj]

\* The keyword arguments given to PageOptions: any subset of the fields, with
\* sizes around both ends of the range.
OptionKwargs ==
  { [given |-> g,
     cursor |-> IF "cursor" \in g THEN c ELSE None,
     size |-> IF "size" \in g THEN s ELSE 0,
     include_prev_cursor |-> IF "include_prev_cursor" \in g THEN i ELSE FALSE] :
      g \in SUBSET OptionFields, c \in {None, <<"a">>},
      s \in (1 - MaxBeyond)..(100 + MaxBeyond), i \in BOOLEAN }

\* The values assigned to a field of a constructed PageOptions.
AssignedValues(name) ==
  CASE name = "cursor" -> {None, <<"b">>}
    [] name = "size" -> {0, 1, 50, 100, 101}
    [] name = "include_prev_cursor" -> BOOLEAN

InitOptions ==
  /\ Quiet
  /\ \E kwargs \in OptionKwargs : call = [fn |-> "kwargs", kwargs |-> kwargs]

\* PageOptions(**kwargs).
Construct ==
  /\ call.fn = "kwargs"
  /\ call' = [fn |-> "constructed", kwargs |-> call.kwargs, out |-> PageOptions(call.kwargs)]
  /\ UNCHANGED paginator

\* options.<name> = value on the options just constructed.
Assign ==
  /\ call.fn = "constructed"
  /\ call.out.ok
  /\ \E name \in OptionFields :
       \E value \in AssignedValues(name) :
         LET Assigned(r) ==
               [fn |-> "assigned", kwargs |-> call.kwargs, before |-> call.out.v,
                name |-> name, value |-> value, obj |-> r.obj, out |-> r.out]
         IN  call' = Assigned(PageOptions_setattr(call.out.v, name, value))
  /\ UNCHANGED paginator

NextOptions == Construct \/ Assign

SpecOptions == InitOptions /\ [][NextOptions]_vars

(***************************************************************************)
(* core/cel_parser.py, core/cel_visitor.py, sqlalchemy/filtering.py        *)
(*                                                                         *)
(* A filter expression is given as its term; parsing builds the lark tree  *)
(* of the CEL grammar: one Tree per grammar rule on the way from expr to   *)
(* the primary, anonymous operator tokens filtered out, so that the left   *)
(* operand of a binary operator sits inside the operator's own subtree     *)
(* (relation_eq, addition_add, ...) and the right operand is the second    *)
(* child.                                                                  *)
(***************************************************************************)

Token(type, value) == [node |-> "Token", data |-> type, value |-> value, children |-> <<>>]
Tree(data, children) == [node |-> "Tree", data |-> data, value |-> <<>>, children |-> children]

\* The terms of filter expressions.
TIdent(name) == [e |-> "ident", name |-> name]
TStr(text) == [e |-> "str", text |-> text]
TInt(text) == [e |-> "int", text |-> text]
TList(items) == [e |-> "list", items |-> items]
TCall(recv, method, args) == [e |-> "call", recv |-> recv, method |-> method, args |-> args]
TAdd(l, r) == [e |-> "add", l |-> l, r |-> r]
TRel(op, l, r) == [e |-> "rel", op |-> op, l |-> l, r |-> r]
TAnd(l, r) == [e |-> "and", l |-> l, r |-> r]
TOr(l, r) == [e |-> "or", l |-> l, r |-> r]
TNot(x) == [e |-> "not", x |-> x]

\* The grammar rule of a relation operator.
RelationRule(op) ==
  CASE op = "==" -> "relation_eq"
    [] op = "!=" -> "relation_ne"
    [] op = "<" -> "relation_lt"
    [] op = "<=" -> "relation_le"
    [] op = ">" -> "relation_gt"
    [] op = ">=" -> "relation_ge"
    [] op = "in" -> "relation_in"

RECURSIVE ParseExpr(_), ParseOr(_), ParseAnd(_), ParseRelation(_), ParseAddition(_)
RECURSIVE ParseMember(_), ParsePrimary(_), ParseUnary(_)

\* expr : conditionalor
ParseExpr(t) == Tree("expr", <<ParseOr(t)>>)

\* conditionalor : [conditionalor "||"] conditionaland
ParseOr(t) ==
  IF t.e = "or"
  THEN Tree("conditionalor", <<ParseOr(t.l), ParseAnd(t.r)>>)
  ELSE Tree("conditionalor", <<ParseAnd(t)>>)

\* conditionaland : [conditionaland "&&"] relation
ParseAnd(t) ==
  IF t.e = "and"
  THEN Tree("conditionaland", <<ParseAnd(t.l), ParseRelation(t.r)>>)
  ELSE Tree("conditionaland", <<ParseRelation(t)>>)

\* relation : [relation_eq | ... | relation_in] addition, relation_eq : relation "=="
ParseRelation(t) ==
  IF t.e = "rel"
  THEN Tree("relation", <<Tree(RelationRule(t.op), <<ParseRelation(t.l)>>),
                          ParseAddition(t.r)>>)
  ELSE Tree("relation", <<ParseAddition(t)>>)

\* addition : [addition_add | addition_sub] multiplication, addition_add : addition "+"
\* multiplication : [...] unary
ParseAddition(t) ==
  IF t.e = "add"
  THEN Tree("addition",
            <<Tree("addition_add", <<ParseAddition(t.l)>>),
              Tree("multiplication", <<ParseUnary(t.r)>>)>>)
  ELSE Tree("addition", <<Tree("multiplication", <<ParseUnary(t)>>)>>)

\* unary : [unary_not | unary_neg] member, unary_not : "!"
ParseUnary(t) ==
  IF t.e = "not"
  THEN Tree("unary", <<Tree("unary_not", <<>>), ParseMember(t.x)>>)
  ELSE Tree("unary", <<ParseMember(t)>>)

\* member : member_dot_arg | primary, member_dot_arg : member "." IDENT "(" [exprlist] ")"
ParseMember(t) ==
  IF t.e = "call"
  THEN Tree("member",
            <<Tree("member_dot_arg",
                   <<ParseMember(t.recv), Token("IDENT", t.method)>>
                   \o (IF Len(t.args) = 0 THEN <<>>
                       ELSE <<Tree("exprlist",
                                   [i \in 1..Len(t.args) |-> ParseExpr(t.args[i])])>>))>>)
  ELSE Tree("member", <<ParsePrimary(t)>>)

\* primary : literal | list_lit | ident | paren_expr, list_lit : "[" [exprlist] "]",
\* paren_expr : "(" expr ")"
ParsePrimary(t) ==
  CASE t.e = "ident" -> Tree("primary", <<Tree("ident", <<Token("IDENT", t.name)>>)>>)
    [] t.e = "str" ->
         Tree("primary",
              <<Tree("literal", <<Token("STRING_LIT", <<"'">> \o t.text \o <<"'">>)>>)>>)
    [] t.e = "int" -> Tree("primary", <<Tree("literal", <<Token("INT_LIT", t.text)>>)>>)
    [] t.e = "list" ->
         Tree("primary",
              <<Tree("list_lit",
                     IF Len(t.items) = 0 THEN <<>>
                     ELSE <<Tree("exprlist",
                                 [i \in 1..Len(t.items) |-> ParseExpr(t.items[i])])>>)>>)
    [] OTHER -> Tree("primary", <<Tree("paren_expr", <<ParseExpr(t)>>)>>)

\* parse_cel_expression on the text of a term.
parse_cel_expression(t) == ParseExpr(t)

RaiseMsg(kind, msg) == [ok |-> FALSE, err |-> kind, msg |-> msg]

RECURSIVE extract_field_names(_)
extract_field_names(node) ==
  IF node.node = "Token"
  THEN (IF node.data = "IDENT" THEN {node.value} ELSE {})
  ELSE IF node.data = "member_dot_arg"
  THEN (IF Len(node.children) > 0 THEN extract_field_names(node.children[1]) ELSE {})
  ELSE (IF node.data = "ident" /\ Len(node.children) > 0 /\ node.children[1].node = "Token"
        THEN {node.children[1].value} ELSE {})
       \cup UNION { extract_field_names(node.children[i]) : i \in 1..Len(node.children) }

\* validate_fields: CelValidationError when a used field is not allowed.
validate_fields(ast, allowed_fields) ==
  LET used_fields == extract_field_names(ast)
      invalid_fields == used_fields \ allowed_fields
  IN  IF invalid_fields # {} THEN RaiseMsg("CelValidationError", "Fields not allowed")
      ELSE Ok(TRUE)

\* str.strip('"\''): every leading and trailing quote character of either kind.
StripQuotes(s) ==
  LET kept == {i \in 1..Len(s) : s[i] \notin {"\"", "'"}}
  IN  IF kept = {} THEN <<>>
      ELSE SubSeq(s, CHOOSE i \in kept : \A k \in kept : i <= k,
                     CHOOSE j \in kept : \A k \in kept : k <= j)

Column(name) == [t |-> "column", name |-> name]

_visit_token(token) ==
  CASE token.data = "INT_LIT" ->
         Ok(PyInt(DigitsValue(token.value, 1, Len(token.value) + 1, 0)))
    [] token.data = "STRING_LIT" -> Ok(PyStr(StripQuotes(token.value)))
    [] OTHER -> Ok(PyStr(token.value))

_create_or_condition(conditions) == Ok([t |-> "or", conditions |-> conditions])

_create_and_condition(conditions) == Ok([t |-> "and", conditions |-> conditions])

_create_comparison(left, operator, right) ==
  IF operator \in {"==", "!=", "<", "<=", ">", ">=", "in"}
  THEN Ok([t |-> "compare", operator |-> operator, left |-> left, right |-> right])
  ELSE RaiseMsg("ValueError", "Unsupported operator")

_get_field(field_name, field_columns) ==
  IF field_name \notin field_columns
  THEN RaiseMsg("ValueError", "is not allowed in filters")
  ELSE Ok(Column(field_name))

Contains == <<"c", "o", "n", "t", "a", "i", "n", "s">>
StartsWith_ == <<"s", "t", "a", "r", "t", "s", "W", "i", "t", "h">>
EndsWith == <<"e", "n", "d", "s", "W", "i", "t", "h">>

_apply_method(obj, method_name, args) ==
  IF method_name \in {Contains, StartsWith_, EndsWith}
  THEN IF Len(args) # 1
       THEN RaiseMsg("ValueError", "requires exactly 1 argument")
       ELSE IF obj.t # "column"
       THEN RaiseMsg("AttributeError", "no such method")
       ELSE Ok([t |-> "method", method |-> method_name, obj |-> obj, arg |-> args[1]])
  ELSE RaiseMsg("ValueError", "Unsupported method")

RECURSIVE visit(_, _), _visit_tree(_, _), VisitAll(_, _)
RECURSIVE _visit_relation_operator(_, _), _visit_member_dot_arg(_, _)

visit(node, field_columns) ==
  IF node.node = "Token" THEN _visit_token(node) ELSE _visit_tree(node, field_columns)

\* [self.visit(child) for child in children]: the first exception ends it.
VisitAll(children, field_columns) ==
  LET rs == [i \in 1..Len(children) |-> visit(children[i], field_columns)]
      failed == {i \in 1..Len(children) : ~rs[i].ok}
  IN  IF failed # {} THEN rs[CHOOSE i \in failed : \A k \in failed : i <= k]
      ELSE Ok([i \in 1..Len(children) |-> rs[i].v])

_visit_relation_operator(op_node, field_columns) ==
  LET left == visit(op_node.children[1], field_columns)
      data == op_node.data
  IN  IF ~left.ok THEN left
      ELSE CASE data = "relation_in" -> Ok(<<left.v, "in">>)
             [] data = "relation_eq" -> Ok(<<left.v, "==">>)
             [] data = "relation_ne" -> Ok(<<left.v, "!=">>)
             [] data = "relation_lt" -> Ok(<<left.v, "<">>)
             [] data = "relation_le" -> Ok(<<left.v, "<=">>)
             [] data = "relation_gt" -> Ok(<<left.v, ">">>)
             [] data = "relation_ge" -> Ok(<<left.v, ">=">>)
             [] OTHER -> RaiseMsg("ValueError", "Unsupported relation operator")

_visit_member_dot_arg(tree, field_columns) ==
  LET obj == visit(tree.children[1], field_columns)
      method_name == tree.children[2].value
      args == IF Len(tree.children) > 2 /\ tree.children[3].data = "exprlist"
              THEN VisitAll(tree.children[3].children, field_columns)
              ELSE Ok(<<>>)
  IN  IF ~obj.ok THEN obj
      ELSE IF ~args.ok THEN args
      ELSE _apply_method(obj.v, method_name, args.v)

_visit_tree(tree, field_columns) ==
  LET data == tree.data
      n == Len(tree.children)
      first == visit(tree.children[1], field_columns)
      all == VisitAll(tree.children, field_columns)
  IN  CASE data = "expr" -> first
        [] data = "conditionalor" /\ n = 1 -> first
        [] data = "conditionalor" /\ n # 1 ->
             IF all.ok THEN _create_or_condition(all.v) ELSE all
        [] data = "conditionaland" /\ n = 1 -> first
        [] data = "conditionaland" /\ n # 1 ->
             IF all.ok THEN _create_and_condition(all.v) ELSE all
        [] data = "relation" /\ n = 1 -> first
        [] data = "relation" /\ n = 2 ->
             LET lo == _visit_relation_operator(tree.children[1], field_columns)
                 right == visit(tree.children[2], field_columns)
             IN  IF ~lo.ok THEN lo
                 ELSE IF ~right.ok THEN right
                 ELSE _create_comparison(lo.v[1], lo.v[2], right.v)
        [] data \in {"relation_in", "addition", "multiplication", "unary", "member",
                     "primary", "literal"} -> first
        [] data = "member_dot_arg" -> _visit_member_dot_arg(tree, field_columns)
        [] data = "ident" -> _get_field(tree.children[1].value, field_columns)
        [] data = "list_lit" ->
             IF n > 0 /\ tree.children[1].node = "Tree" /\ tree.children[1].data = "exprlist"
             THEN VisitAll(tree.children[1].children, field_columns)
             ELSE all
        [] data = "exprlist" -> all
        [] OTHER ->
             IF n > 0 THEN first
             ELSE RaiseMsg("ValueError", "Unsupported tree data type")

NoExpr == [e |-> "none"]

\* apply_cel_filter: the query with the lowered predicate, or ValueError
\* raised from the exception that ended the lowering.
apply_cel_filter(q, expr, fields) ==
  IF expr = NoExpr THEN [kind |-> "query", q |-> q, predicate |-> <<>>, cause |-> "", msg |-> ""]
  ELSE
    LET ast == parse_cel_expression(expr)
        validated == validate_fields(ast, fields)
        filter_condition == visit(ast, fields)
        failure == IF ~validated.ok THEN validated ELSE filter_condition
    IN  IF validated.ok /\ filter_condition.ok
        THEN [kind |-> "query", q |-> q, predicate |-> <<filter_condition.v>>,
              cause |-> "", msg |-> ""]
        ELSE [kind |-> "ValueError", q |-> q, predicate |-> <<>>,
              cause |-> failure.err, msg |-> failure.msg]

\* The identifiers of filter expressions: two columns and a name that is no
\* allowed field.
Secret == <<"s", "e", "c", "r", "e", "t">>
FilterIdents == {FieldA, FieldId, Secret}

FilterLiterals == { TStr(<<"x">>), TInt(<<"1">>) }

\* The arguments of method calls: a literal, an identifier, and a
\* concatenation of a literal and an identifier in either order.
FilterArguments ==
  FilterLiterals
  \cup { TIdent(n) : n \in FilterIdents }
  \cup { TAdd(TStr(<<"x">>), TIdent(n)) : n \in FilterIdents }
  \cup { TAdd(TIdent(n), TStr(<<"x">>)) : n \in FilterIdents }

FilterRelations ==
  { TRel(op, TIdent(n), r) :
      op \in {"==", "<"}, n \in FilterIdents,
      r \in FilterLiterals \cup { TIdent(m) : m \in FilterIdents } }
  \cup { TRel("in", TIdent(n), TList(items)) :
           n \in FilterIdents,
           items \in { <<TInt(<<"1">>)>> }
                     \cup { <<TInt(<<"1">>), TIdent(m)>> : m \in FilterIdents } }

FilterCalls ==
  { TCall(TIdent(n), m, <<arg>>) :
      n \in FilterIdents, m \in {Contains, StartsWith_, <<"f">>}, arg \in FilterArguments }
  \cup { TCall(TIdent(n), Contains, <<>>) : n \in FilterIdents }

\* The filter expressions given to apply_cel_filter.
FilterExprs ==
  {NoExpr} \cup FilterRelations \cup FilterCalls
  \cup { TAnd(TRel("==", TIdent(FieldA), TInt(<<"1">>)), c) :
           c \in { TCall(TIdent(FieldA), Contains, <<arg>>) : arg \in FilterArguments } }
  \cup { TOr(TRel("==", TIdent(n), TInt(<<"1">>)), TRel("<", TIdent(FieldId), TInt(<<"1">>))) :
           n \in FilterIdents }

\* The identifiers a filter expression references: every name in it that is
\* not a method name.
RECURSIVE TermIdents(_)
TermIdents(t) ==
  CASE t.e = "ident" -> {t.name}
    [] t.e \in {"str", "int", "none"} -> {}
    [] t.e = "list" -> UNION { TermIdents(t.items[i]) : i \in 1..Len(t.items) }
    [] t.e = "call" ->
         TermIdents(t.recv) \cup UNION { TermIdents(t.args[i]) : i \in 1..Len(t.args) }
    [] t.e \in {"add", "rel", "and", "or"} -> TermIdents(t.l) \cup TermIdents(t.r)
    [] t.e = "not" -> TermIdents(t.x)

NoOutcome == [kind |-> "none", q |-> <<>>, predicate |-> <<>>, cause |-> "", msg |-> ""]

InitFilter ==
  /\ Quiet
  /\ \E expr \in FilterExprs, fields \in {{FieldA}, {FieldA, FieldId}} :
       call = [fn |-> "filter", expr |-> expr, fields |-> fields, out |-> NoOutcome]

\* apply_cel_filter(query, expr, fields=fields).
ApplyCelFilter ==
  /\ call.fn = "filter"
  /\ call' = [call EXCEPT !.fn = "filtered",
                          !.out = apply_cel_filter(query, call.expr, call.fields)]
  /\ UNCHANGED paginator

NextFilter == ApplyCelFilter

SpecFilter == InitFilter /\ [][NextFilter]_vars

\* The longest content of a string literal given to _visit_token.
MaxLiteral == 3

\* The characters of the content of a string literal.
LiteralChars == {"x", " ", "'", "\""}

\* The string literal tokens of the lexer: a content enclosed in a pair of
\* single or of double quotes, the content free of the enclosing quote.
StringLiterals ==
  UNION { { [quote |-> q, content |-> c] :
              c \in UNION { [1..n -> LiteralChars \ {q}] : n \in 0..MaxLiteral } }
          : q \in {"'", "\""} }

InitLiteral ==
  /\ Quiet
  /\ \E lit \in StringLiterals :
       call = [fn |-> "token", quote |-> lit.quote, content |-> lit.content,
               token |-> Token("STRING_LIT", <<lit.quote>> \o lit.content \o <<lit.quote>>),
               out |-> Fail]

\* visitor.visit(token) for a STRING_LIT token.
VisitToken ==
  /\ call.fn = "token"
  /\ call' = [call EXCEPT !.fn = "visited", !.out = visit(call.token, {})]
  /\ UNCHANGED paginator

NextLiteral == VisitToken

SpecLiteral == InitLiteral /\ [][NextLiteral]_vars

\* Filter expressions with a negation: of a comparison, of a conjunction or
\* disjunction of comparisons, of a negation, and inside a conjunction.
ComparisonExprs ==
  { TRel(op, TIdent(n), TInt(<<"1">>)) : op \in {"==", "!=", "<", ">="}, n \in {FieldA, FieldId} }

NegatedExprs ==
  { TNot(c) : c \in ComparisonExprs }
  \cup { TNot(TAnd(c, d)) : c \in ComparisonExprs, d \in {TRel("<", TIdent(FieldId), TInt(<<"1">>))} }
  \cup { TNot(TOr(c, d)) : c \in ComparisonExprs, d \in {TRel("<", TIdent(FieldId), TInt(<<"1">>))} }
  \cup { TNot(TNot(c)) : c \in ComparisonExprs }
  \cup { TAnd(c, TNot(d)) : c \in ComparisonExprs, d \in ComparisonExprs }

InitNegation ==
  /\ Quiet
  /\ \E expr \in ComparisonExprs \cup NegatedExprs, fields \in {{FieldA, FieldId}} :
       call = [fn |-> "filter", expr |-> expr, fields |-> fields, out |-> NoOutcome]

SpecNegation == InitNegation /\ [][NextFilter]_vars

(***************************************************************************)
(* core/ordering.py                                                        *)
(***************************************************************************)

\* str.strip(): leading and trailing whitespace removed.
Strip(s) ==
  LET kept == {i \in 1..Len(s) : s[i] \notin Whitespace}
  IN  IF kept = {} THEN <<>>
      ELSE SubSeq(s, CHOOSE i \in kept : \A k \in kept : i <= k,
                     CHOOSE j \in kept : \A k \in kept : k <= j)

\* str.split(sep) for a separator of one character: the pieces between the
\* separators, the empty ones included.
Split(s, sep) ==
  LET at == {i \in 1..Len(s) : s[i] = sep}
      n == Cardinality(at)
      cut == [k \in 0..(n + 1) |->
                IF k = 0 THEN 0
                ELSE IF k = n + 1 THEN Len(s) + 1
                ELSE CHOOSE i \in at : Cardinality({j \in at : j < i}) = k - 1]
  IN  [k \in 1..(n + 1) |-> SubSeq(s, cut[k - 1] + 1, cut[k] - 1)]

NotBlank(p) == Len(Strip(p)) > 0

\* One part read without the descending prefix.
OrderingPartAscending(part) == [field_name |-> part, direction |-> "asc"]

\* The field name and the direction of one part.
OrderingPart(part) ==
  IF Len(part) > 0 /\ part[1] = "-"
  THEN [field_name |-> Tail(part), direction |-> "desc"]
  ELSE [field_name |-> part, direction |-> "asc"]

parse_ordering(order_by, allowed_fields) ==
  IF Len(order_by) = 0 \/ Len(Strip(order_by)) = 0 THEN Raise("OrderingError")
  ELSE
    LET pieces == SelectSeq(Split(order_by, ","), NotBlank)
        parts == [k \in 1..Len(pieces) |-> OrderingPart(Strip(pieces[k]))]
        bad(k) == Len(parts[k].field_name) = 0 \/ parts[k].field_name \notin allowed_fields
    IN  IF Len(parts) = 0 THEN Raise("OrderingError")
        ELSE IF \E k \in 1..Len(parts) : bad(k) THEN Raise("OrderingError")
        ELSE Ok([k \in 1..Len(parts) |-> <<parts[k].field_name, parts[k].direction>>])

\* The longest ordering string given to parse_ordering.
MaxLen == 5

OrderingChars == {"a", "b", "-", ",", " "}

\* Every string of up to MaxLen characters.
OrderingStrings == UNION { [1..n -> OrderingChars] : n \in 0..MaxLen }

AllowedSets == { {<<"a">>}, {<<"a">>, <<"b", "a">>} }

InitOrdering ==
  /\ Quiet
  /\ \E order_by \in OrderingStrings, allowed \in AllowedSets :
       call = [fn |-> "ordering", order_by |-> order_by, allowed_fields |-> allowed,
               out |-> Fail]

\* parse_ordering(order_by, allowed_fields).
ParseOrdering ==
  /\ call.fn = "ordering"
  /\ call' = [call EXCEPT !.fn = "parsed",
                          !.out = parse_ordering(call.order_by, call.allowed_fields)]
  /\ UNCHANGED paginator

NextOrdering == ParseOrdering

SpecOrdering == InitOrdering /\ [][NextOrdering]_vars

(***************************************************************************)
(* Properties                                                              *)
(***************************************************************************)

\* The ordering ends in the unique field.
UniqueFinal(order) == Len(order) >= 1 /\ order[Len(order)][1] = FieldId

\* The rows of the query in the query's order, when that order is total.
FullyOrdered(q) == CHOOSE p \in Ordered(BaseRows(q), q.order_by) : TRUE

\* The items of the first k pages of the walk, concatenated.
RECURSIVE WalkItems(_)
WalkItems(k) == IF k = 0 THEN <<>> ELSE WalkItems(k - 1) \o trail[k].page.items

\* The first n pages of the walk were reached from the first page through
\* next cursors alone.
ForwardWalk(n) ==
  /\ n >= 1 /\ n <= Len(trail)
  /\ trail[1].via = "first"
  /\ \A i \in 2..n : trail[i].via = "next"

\* C1  Keyset progress: with an ordering that ends in the unique field, the
\* pages of a walk from the first page through next cursors, concatenated,
\* are the first min(k * size, total) rows of the fully ordered rows of the
\* query: no row twice, none skipped.
C1_KeysetProgress ==
  (ForwardWalk(Len(trail)) /\ UniqueFinal(query.order_by)) =>
    LET full == FullyOrdered(query) IN
    WalkItems(Len(trail))
      = SubSeq(full, 1, Min(Len(trail) * options.size, Len(full)))

\* A walk of three pages over two ordering fields that ends on a short last
\* page.
C1_Witness ==
  /\ ForwardWalk(Len(trail)) /\ Len(trail) = 3
  /\ UniqueFinal(query.order_by) /\ Len(query.order_by) = 2
  /\ query.order_by[1][2] = "desc"
  /\ options.size = 1
  /\ pc = "done" /\ result.next = None
  /\ Len(WalkItems(3)) = 3

\* C2  Directional symmetry: when page N >= 2 was reached through next
\* cursors, the page fetched with page N's prev cursor holds the items of
\* page N-1, in the order page N-1 returned them.
C2_DirectionalSymmetry ==
  \A n \in 2..(Len(trail) - 1) :
    (ForwardWalk(n) /\ trail[n + 1].via = "prev" /\ UniqueFinal(query.order_by))
      => trail[n + 1].page.items = trail[n - 1].page.items

\* Page 3 of a walk with two items a page, then back to page 2 through page
\* 3's prev cursor.
C2_Witness ==
  /\ Len(trail) = 3 /\ ForwardWalk(2) /\ trail[3].via = "prev"
  /\ UniqueFinal(query.order_by)
  /\ options.size = 2
  /\ Len(trail[3].page.items) = 2

\* C3  Ordering binding: a cursor emitted for a query with ordering A, used
\* on a query whose ordering B differs from A, raises CursorError, and no
\* count query and no items query has run.
C3_OrderingBinding ==
  via = "foreign" =>
    /\ pc = "done"
    /\ result = Raised("CursorError")
    /\ calls = <<>>

\* A cursor emitted under a two-field ordering, refused under the same fields
\* in the other order.
C3_Witness ==
  /\ via = "foreign" /\ pc = "done" /\ result.kind = "error"
  /\ Len(query.order_by) = 2
  /\ decode_cursor(options.cursor).ok
  /\ decode_cursor(options.cursor).v.order_fields
       = <<query.order_by[2], query.order_by[1]>>

\* paginate went past the decoding of the cursor.
Proceeded == pc \in {"count", "fetch"} \/ (pc = "done" /\ result.err # "CursorError")

\* The cursor decodes to the query's ordering, pair by pair, with a value for
\* every ordering field, and the paginator seeks under the query's ordering.
DecodesToQueryOrdering ==
  LET d == decode_cursor(options.cursor) IN
  /\ d.ok
  /\ d.v.order_fields = query.order_by
  /\ \A i \in 1..Len(query.order_by) : HasKey(d.v.values, query.order_by[i][1])
  /\ self.order_fields = query.order_by

\* paginate raised CursorError without a backend call.
Refused == pc = "done" /\ result = Raised("CursorError") /\ calls = <<>>

\* C4  Cursor opacity: for every non-empty string supplied as the cursor, a
\* tampered copy of an emitted cursor included, paginate raises CursorError
\* or proceeds only when the string decodes to the query's ordering with a
\* value for every ordering field.  The empty string is taken as no cursor.
C4_CursorOpacity ==
  (pc # "idle" /\ options.cursor # None /\ Len(query.order_by) > 0) =>
    IF options.cursor = <<>>
    THEN Proceeded => ~locals.has_cursor
    ELSE Refused \/ (Proceeded /\ DecodesToQueryOrdering)

\* A tampered cursor that decodes, to the query's fields with a direction
\* flipped, and is refused.
C4_Witness ==
  /\ via = "tampered" /\ Refused
  /\ Len(query.order_by) = 2
  /\ LET d == decode_cursor(options.cursor) IN
     /\ d.ok
     /\ FieldNames(d.v.order_fields) = FieldNames(query.order_by)
     /\ d.v.order_fields # query.order_by

\* A tampered cursor that still decodes to the query's ordering and whose
\* seek has run.
TamperedPage ==
  via = "tampered" /\ pc = "done" /\ result.kind = "page" /\ DecodesToQueryOrdering

\* A tampered cursor refused for a missing value.
TamperedMissingValue ==
  /\ via = "tampered" /\ Refused
  /\ LET d == decode_cursor(options.cursor) IN
     /\ d.ok
     /\ d.v.order_fields = query.order_by
     /\ \E i \in 1..Len(query.order_by) : ~HasKey(d.v.values, query.order_by[i][1])

\* C4 as stated, for every string: paginate raises CursorError or proceeds
\* only when the string decodes to the query's ordering.
C4_AsStated ==
  (pc # "idle" /\ options.cursor # None /\ Len(query.order_by) > 0) =>
    (Refused \/ (Proceeded /\ DecodesToQueryOrdering))

RECURSIVE Rank(_, _, _)
Rank(vals, order, i) ==
  IF i > Len(order) THEN 0
  ELSE (IF order[i][2] = "asc" THEN vals[order[i][1]] ELSE MaxA - vals[order[i][1]])
         * (MaxA + 1) ^ (Len(order) - i)
       + Rank(vals, order, i + 1)

\* C6  Seek predicate correctness: the condition list of
\* build_cursor_filter_conditions, OR over the groups and AND inside a group,
\* is true of a row exactly when the row comes strictly after the cursor
\* tuple in the ordering (is_prev false) or strictly before it (is_prev
\* true), axis by axis in each axis's direction; a row equal to the cursor
\* tuple on every ordering field satisfies neither.
C6_SeekPredicate ==
  call.fn = "conditions" =>
    LET selected == EvalConditions(call.out, call.r)
        rank_r == Rank(call.r, call.order_fields, 1)
        rank_V == Rank(call.V, call.order_fields, 1)
    IN  /\ Len(call.out) >= 1
        /\ selected <=> (IF call.is_prev THEN rank_r < rank_V ELSE rank_r > rank_V)
        /\ rank_r = rank_V => ~selected

\* Three axes of mixed directions, backward: the row ties with the cursor
\* tuple on the first two axes and precedes it on the third.
C6_Witness ==
  /\ call.fn = "conditions" /\ call.is_prev
  /\ Len(call.order_fields) = 3
  /\ call.order_fields[1][2] = "asc" /\ call.order_fields[2][2] = "desc"
  /\ call.order_fields[3][2] = "desc"
  /\ call.r[call.order_fields[1][1]] = call.V[call.order_fields[1][1]]
  /\ call.r[call.order_fields[2][1]] = call.V[call.order_fields[2][1]]
  /\ call.r[call.order_fields[3][1]] > call.V[call.order_fields[3][1]]
  /\ EvalConditions(call.out, call.r)

\* C7  Filter safelist: apply_cel_filter on an expression that references an
\* identifier outside the allowed fields, in a comparison, in an `in`
\* membership, as a method receiver or inside a method-call argument, fails
\* with an error that comes from the refusal of that identifier and returns
\* no filtered query.
C7_FilterSafelist ==
  (call.fn = "filtered" /\ ~(TermIdents(call.expr) \subseteq call.fields)) =>
    /\ call.out.kind = "ValueError"
    /\ \/ call.out.cause = "CelValidationError"
       \/ call.out.cause = "ValueError" /\ call.out.msg = "is not allowed in filters"

\* A disallowed identifier inside a method-call argument, in a concatenation
\* after a literal: validate_fields passes, the visitor never reaches the
\* identifier, and apply_cel_filter returns a filtered query.
C7_Witness ==
  /\ call.fn = "filtered"
  /\ call.expr.e = "call"
  /\ call.expr.recv = TIdent(FieldA)
  /\ call.expr.args = <<TAdd(TStr(<<"x">>), TIdent(Secret))>>
  /\ call.out.kind = "query"
  /\ call.out.predicate
       = << [t |-> "method", method |-> call.expr.method, obj |-> Column(FieldA),
             arg |-> PyStr(<<"x">>)] >>

\* The comma-separated parts of a string, as (first, last) positions in input
\* order: the longest stretches without a comma that start at the string's
\* start or after a comma and end at the string's end or before a comma.
Stretches(text) ==
  { ij \in (1..(Len(text) + 1)) \X (0..Len(text)) :
      /\ ij[1] <= ij[2] + 1
      /\ ij[1] = 1 \/ text[ij[1] - 1] = ","
      /\ ij[2] = Len(text) \/ text[ij[2] + 1] = ","
      /\ \A k \in ij[1]..ij[2] : text[k] # "," }

\* The trimmed parts among the given stretches, in input order.
TrimmedParts(text, among) ==
  LET nth(k) == CHOOSE ij \in among : Cardinality({x \in among : x[1] < ij[1]}) = k - 1
  IN  [k \in 1..Cardinality(among) |-> Strip(SubSeq(text, nth(k)[1], nth(k)[2]))]

\* An allowed field name, or "-" followed by an allowed field name.
ValidPart(part, allowed) ==
  \/ part \in allowed
  \/ Len(part) >= 1 /\ part[1] = "-" /\ Tail(part) \in allowed

PairOfPart(part) ==
  IF part[1] = "-" THEN <<Tail(part), "desc">> ELSE <<part, "asc">>

\* parse_ordering succeeds exactly on the strings whose trimmed parts, taken
\* from the given stretches, are all valid and at least one, and returns one
\* pair per such part in input order; every other string raises
\* OrderingError.
SucceedsExactlyOn(among) ==
  LET parts == TrimmedParts(call.order_by, among)
      valid == /\ Len(parts) >= 1
               /\ \A k \in 1..Len(parts) : ValidPart(parts[k], call.allowed_fields)
  IN  IF valid
      THEN call.out = Ok([k \in 1..Len(parts) |-> PairOfPart(parts[k])])
      ELSE call.out = Raise("OrderingError")

\* C8  Ordering parser totality: parse_ordering succeeds exactly for the
\* strings that have a part that is not blank and whose every part that is
\* not blank is, trimmed, an allowed field name or "-" followed by one; it
\* returns one pair per such part in input order.  Blank parts between
\* separators are skipped.  Every other input raises OrderingError.
C8_ParserTotality ==
  call.fn = "parsed" =>
    SucceedsExactlyOn({ij \in Stretches(call.order_by) :
                         NotBlank(SubSeq(call.order_by, ij[1], ij[2]))})

\* A string with an empty part between two separators and a descending
\* second field parses to two pairs.
C8_Witness ==
  /\ call.fn = "parsed"
  /\ call.order_by = <<"a", ",", ",", "-", "a">>
  /\ call.out = Ok(<< <<<<"a">>, "asc">>, <<<<"a">>, "desc">> >>)

\* C8 as stated: every comma-separated part, the empty ones too, must be a
\* valid part for parse_ordering to succeed.
C8_AsStated ==
  call.fn = "parsed" =>
    /\ Len(call.order_by) = 0 => call.out = Raise("OrderingError")
    /\ Len(call.order_by) > 0 => SucceedsExactlyOn(Stretches(call.order_by))

\* C9  total_size independence: the total_size of every page is the row
\* count of the query without the seek predicate, whatever the cursor
\* (absent, next, prev) and the page size; all pages of a walk carry the same
\* total_size.
C9_TotalSizeIndependence ==
  /\ (pc = "done" /\ result.kind = "page") =>
       result.total_size = Cardinality(BaseRows(query))
  /\ \A i \in 1..Len(trail) : trail[i].page.total_size = Cardinality(BaseRows(query))

\* A backward page over a filtered query whose seek predicate selects fewer
\* rows than the query has.
C9_Witness ==
  /\ pc = "done" /\ result.kind = "page" /\ via = "prev"
  /\ query.where # <<>>
  /\ options.size = 2
  /\ Cardinality(SeekRows) < result.total_size
  /\ Cardinality(rows) > result.total_size
  /\ result.total_size = 2

\* has_previous of the finished call: forward, a cursor was supplied;
\* backward, the items query found more than size rows.
HasPrevious ==
  IF locals.direction = PREV
  THEN Cardinality(SeekRows) > options.size
  ELSE options.cursor # None /\ options.cursor # <<>>

\* C10  Prev-cursor emission: a page carries a prev cursor exactly when it
\* has at least one item and has_previous is true or include_prev_cursor is
\* true; a page without items carries none.
C10_PrevCursorEmission ==
  (pc = "done" /\ result.kind = "page") =>
    /\ locals.has_previous = HasPrevious
    /\ result.prev # None
         <=> (Len(result.items) > 0 /\ (HasPrevious \/ options.include_prev_cursor))

\* A second page reached through a next cursor, include_prev_cursor false:
\* it carries a prev cursor.
C10_Witness ==
  /\ pc = "done" /\ result.kind = "page" /\ via = "next"
  /\ ~options.include_prev_cursor
  /\ Len(result.items) > 0
  /\ result.prev # None

\* C10 as stated: a prev cursor exactly when has_previous is true, or
\* include_prev_cursor is true and at least one item is returned.
C10_AsStated ==
  (pc = "done" /\ result.kind = "page") =>
    (result.prev # None
       <=> (HasPrevious \/ (options.include_prev_cursor /\ Len(result.items) > 0)))

\* The finished call ran both queries and the items query selected no row.
NoRowSelected ==
  pc = "done" /\ calls = <<"count", "items">> /\ SeekComparable /\ SeekRows = {}

\* C11  Empty page: a call whose items query selects no row returns a page
\* without items, and every page without items has neither a prev nor a next
\* cursor, whatever the cursor supplied, its direction and
\* include_prev_cursor.
C11_EmptyPageNoCursors ==
  /\ NoRowSelected => (result.kind = "page" /\ Len(result.items) = 0)
  /\ (pc = "done" /\ result.kind = "page" /\ Len(result.items) = 0) =>
       (result.prev = None /\ result.next = None)

\* The prev cursor of a first page fetched with include_prev_cursor, followed
\* with include_prev_cursor still set: the page is empty, has_next is true.
C11_Witness ==
  /\ pc = "done" /\ result.kind = "page" /\ via = "prev"
  /\ options.include_prev_cursor
  /\ locals.has_next
  /\ Cardinality(rows) >= 2
  /\ Len(result.items) = 0

\* The cursor position of the current call: the ordering values its cursor
\* carries, as a row.
CursorRow ==
  [f \in {self.field_names[i] : i \in 1..Len(self.field_names)} |->
     DictGet(locals.cursor_values, f).n]

\* The rows of the query strictly before the cursor position in the query's
\* ordering.
Preceding == {r \in BaseRows(query) : Before(r, CursorRow, query.order_by)}

\* The rows of the query strictly after the cursor position.
Following == {r \in BaseRows(query) : Before(CursorRow, r, query.order_by)}

\* items lists distinct rows of S, none before an earlier one in the query's
\* ordering.
InQueryOrder(items, S) ==
  /\ \A i \in 1..Len(items) : items[i] \in S
  /\ \A i, j \in 1..Len(items) :
       i < j => (items[i] # items[j] /\ ~Before(items[j], items[i], query.order_by))

\* The current call finished with a page for a cursor of the given direction.
PageFor(direction) ==
  /\ pc = "done" /\ result.kind = "page"
  /\ locals.has_cursor /\ locals.direction = direction

\* C12  Backward page: with a prev cursor the page holds min(size, n) of the n
\* rows strictly before the cursor position, the ones nearest the position,
\* listed in the query's order; no row at or after the position is returned.
C12_BackwardPage ==
  PageFor(PREV) =>
    /\ InQueryOrder(result.items, Preceding)
    /\ Len(result.items) = Min(options.size, Cardinality(Preceding))
    /\ \A r \in Preceding :
         (\A i \in 1..Len(result.items) : result.items[i] # r) =>
           \A i \in 1..Len(result.items) : ~Before(result.items[i], r, query.order_by)

\* A backward page of two items under a two-field ordering whose first field
\* descends: the items query returned them nearest first.
C12_Witness ==
  /\ PageFor(PREV) /\ via = "prev"
  /\ Len(query.order_by) = 2 /\ query.order_by[1][2] = "desc"
  /\ options.size = 2
  /\ Cardinality(Preceding) = 2
  /\ Len(result.items) = 2
  /\ result.items[1][FieldA] # result.items[2][FieldA]

\* The current call finished with a page on forward navigation: no cursor, or
\* a cursor of direction next.
ForwardPage ==
  /\ pc = "done" /\ result.kind = "page"
  /\ (~locals.has_cursor \/ locals.direction = NEXT)

\* The rows after the cursor position on forward navigation: without a cursor,
\* every row of the query.
RowsAfter == IF locals.has_cursor THEN Following ELSE BaseRows(query)

\* C13  Page length and next cursor: every page has at most size items; a
\* forward page has min(size, n) items, n the number of rows after the cursor
\* position, and carries a next cursor exactly when a row after the position
\* is left that the page does not hold; under an ordering that ends in the
\* unique field, exactly when a row of the query lies after the last item.
C13_PageLengthAndNext ==
  /\ (pc = "done" /\ result.kind = "page") => Len(result.items) <= options.size
  /\ ForwardPage =>
       /\ InQueryOrder(result.items, RowsAfter)
       /\ Len(result.items) = Min(options.size, Cardinality(RowsAfter))
       /\ result.next # None <=> Cardinality(RowsAfter) > Len(result.items)
       /\ (UniqueFinal(query.order_by) /\ Len(result.items) > 0) =>
            (result.next # None
               <=> \E r \in BaseRows(query) :
                     Before(result.items[Len(result.items)], r, query.order_by))

\* A full last page reached through a next cursor: as many rows after the
\* position as the page holds, and no next cursor.
C13_Witness ==
  /\ ForwardPage /\ via = "next" /\ Len(trail) = 3
  /\ options.size = 1
  /\ Cardinality(RowsAfter) = 1
  /\ Len(result.items) = 1
  /\ result.next = None

\* The walk is a first page followed by a call with that page's prev cursor.
Polled ==
  /\ Len(trail) = 2
  /\ trail[1].via = "first" /\ trail[2].via = "prev"
  /\ pc = "done"

\* The rows of the query, in the table the poll's items query ran on, that
\* were inserted after the first page was fetched and sort before the first
\* page's first item.
InsertedBefore ==
  { r \in trail[2].rows \ trail[1].rows :
      /\ EvalConditions(query.where, r)
      /\ Before(r, trail[1].page.items[1], query.order_by) }

\* C14  Live-feed polling: the prev cursor of a first page fetched with
\* include_prev_cursor carries the ordering values of the page's first item
\* and the direction prev; the call with that cursor returns only rows
\* inserted since that sort before that item, min(size, n) of the n such
\* rows, the nearest ones, in the query's order, and so none of the rows of
\* the first page and no row at all when nothing was inserted.
C14_LiveFeedPolling ==
  /\ (pc = "done" /\ via = "first" /\ result.kind = "page"
        /\ options.include_prev_cursor /\ Len(result.items) > 0) =>
       decode_cursor(result.prev)
         = Ok([order_fields |-> query.order_by,
               values |-> ItemValues(FieldNames(query.order_by), result.items[1], 1, <<>>),
               direction |-> PREV])
  /\ Polled =>
       /\ options.include_prev_cursor
       /\ InQueryOrder(trail[2].page.items, InsertedBefore)
       /\ Len(trail[2].page.items) = Min(options.size, Cardinality(InsertedBefore))
       /\ \A r \in InsertedBefore :
            (\A i \in 1..Len(trail[2].page.items) : trail[2].page.items[i] # r) =>
              \A i \in 1..Len(trail[2].page.items) :
                ~Before(trail[2].page.items[i], r, query.order_by)
       /\ \A i \in 1..Len(trail[2].page.items), j \in 1..Len(trail[1].page.items) :
            trail[2].page.items[i] # trail[1].page.items[j]
       /\ trail[2].rows = trail[1].rows => trail[2].page.items = <<>>

\* Two rows inserted before the first item of a first page under a two-field
\* ordering: the poll with size 1 returns the nearer of the two.
C14_Witness ==
  /\ Polled
  /\ options.size = 1
  /\ Cardinality(InsertedBefore) = 2
  /\ Len(trail[2].page.items) = 1
  /\ Len(query.order_by) = 2

\* Nothing was inserted: the poll returns an empty page.
C14_NothingInserted ==
  Polled /\ trail[2].rows = trail[1].rows /\ trail[1].rows # {}

\* The current call was made on a query without ORDER BY.
CalledUnordered == pc # "idle" /\ query.order_by = <<>>

\* C15  No ORDER BY: paginate on a query without ORDER BY raises ValueError,
\* which is no error of the library, whatever the cursor, and has made no
\* backend call; a cursor that does not decode does not turn the error into
\* CursorError.
C15_NoOrderBy ==
  CalledUnordered =>
    /\ pc = "done"
    /\ result = Raised("ValueError")
    /\ calls = <<>>

\* A blank cursor, which decode_cursor refuses, on a query without ORDER BY.
C15_Witness ==
  /\ CalledUnordered /\ via = "unordered" /\ pc = "done"
  /\ options.cursor = <<" ">>
  /\ ~decode_cursor(options.cursor).ok
  /\ result.err = "ValueError"

\* C15 as stated: paginate on a query without ORDER BY raises PaginationError
\* and has made no backend call.
C15_AsStated ==
  CalledUnordered =>
    /\ pc = "done"
    /\ result = Raised("PaginationError")
    /\ calls = <<>>

\* decode_cursor was called on a string and raised CursorError.
DecodeRefused == call.out = Raise("CursorError")

\* The string is base64 as RFC 4648 writes it: characters of the URL-safe
\* alphabet in groups of four, the last group padded with one or two "=".
StrictBase64(c) ==
  /\ Len(c) % 4 = 0
  /\ \A i \in 1..Len(c) :
       \/ c[i] \in {UrlSafeAlphabet[k] : k \in 1..64}
       \/ c[i] = "=" /\ i >= Len(c) - 1 /\ c[Len(c)] = "="

\* An ordering token the claim calls malformed.
MalformedToken(tok) ==
  tok.t = "str" /\ (Len(tok.s) < 2 \/ tok.s[1] \notin {"+", "-"})

\* The payload is one of the malformed payloads the claim lists.
MalformedPayload(p) ==
  \/ p.t # "dict"
  \/ ~HasKey(p.kv, KeyO) \/ ~HasKey(p.kv, KeyV)
  \/ DictGet(p.kv, KeyO).t # "list" \/ DictGet(p.kv, KeyV).t # "dict"
  \/ \E i \in 1..Len(DictGet(p.kv, KeyO).xs) : MalformedToken(DictGet(p.kv, KeyO).xs[i])
  \/ /\ HasKey(p.kv, KeyD)
     /\ DictGet(p.kv, KeyD) \notin {PyStr(NEXT), PyStr(PREV)}

\* The payload is an object with a list of sign-and-name tokens under o, an
\* object under v and no d.
WellFormedWithoutDirection(p) ==
  /\ p.t = "dict"
  /\ HasKey(p.kv, KeyO) /\ HasKey(p.kv, KeyV) /\ ~HasKey(p.kv, KeyD)
  /\ DictGet(p.kv, KeyO).t = "list" /\ DictGet(p.kv, KeyV).t = "dict"
  /\ \A i \in 1..Len(DictGet(p.kv, KeyO).xs) :
       /\ DictGet(p.kv, KeyO).xs[i].t = "str"
       /\ ~MalformedToken(DictGet(p.kv, KeyO).xs[i])

\* The cases of the claim other than the one of input that is not base64.
DecodeErrorCases ==
  /\ ~call.out.ok => DecodeRefused
  /\ (call.cursor = <<>> \/ \A i \in 1..Len(call.cursor) : call.cursor[i] \in Whitespace)
       => DecodeRefused
  /\ call.src = "text" => DecodeRefused
  /\ (call.src = "value" /\ MalformedPayload(call.payload)) => DecodeRefused
  /\ (call.src = "value" /\ call.form = "plain"
        /\ WellFormedWithoutDirection(call.payload)) =>
       (call.out.ok /\ call.out.v.direction = NEXT)

\* C16  decode_cursor errors: decode_cursor raises CursorError and nothing
\* else, on empty or blank input, on input that is not base64, on a payload
\* that is no JSON, no object, lacks o or v, has an o that is no list or a v
\* that is no object, has a malformed ordering token, or has a d other than
\* next and prev; a payload without d decodes with direction next.
C16_DecodeErrors ==
  call.fn = "decoded" =>
    /\ DecodeErrorCases
    /\ ~StrictBase64(call.cursor) => DecodeRefused

\* The base64 text of a well-formed payload with a character outside the
\* alphabet put in: decode_cursor returns the payload's ordering and values.
C16_Witness ==
  /\ call.fn = "decoded" /\ call.form = "junk"
  /\ ~StrictBase64(call.cursor)
  /\ call.out.ok
  /\ call.out.v.order_fields = << <<<<"a">>, "asc">> >>

\* Every case of the claim but that of input that is not base64.
C16_OtherCases == call.fn = "decoded" => DecodeErrorCases


\* The names of the fields of an ordering, and the keys of a values map.
OrderingNames(o) == {o[i][1] : i \in 1..Len(o)}

\* encode_cursor returned a string, which decode_cursor then read.
EncodedAndRead == call.fn = "decoded" /\ call.out.ok

\* The cursor read back has an entry in v for every field of its o.
ValuesCoverOrdering == OrderingNames(call.out.v.order_fields) \subseteq DictKeys(call.out.v.values)

\* C17  Encoded cursor contents: every cursor string encode_cursor returns
\* has a non-empty o and a non-empty v, and an entry in v for every field
\* named in o when the values given to encode_cursor have one; given values
\* that lack a field of the ordering, encode_cursor returns a cursor whose v
\* lacks it too.
C17_EncodedCursor ==
  /\ call.fn = "raised" =>
       /\ call.out = Raise("CursorError")
       /\ \/ call.args.o = <<>>
          \/ call.args.v = <<>>
          \/ call.args.d \notin {NEXT, PREV}
  /\ call.fn = "decoded" =>
       /\ call.out.ok
       /\ Len(call.out.v.order_fields) > 0
       /\ Len(call.out.v.values) > 0
       /\ ValuesCoverOrdering <=> (OrderingNames(call.args.o) \subseteq DictKeys(call.args.v))

\* An ordering of two fields encoded with a values map that holds both.
C17_Witness ==
  /\ EncodedAndRead
  /\ Len(call.args.o) = 2
  /\ Len(call.args.v) = 2
  /\ ValuesCoverOrdering

\* C17 as stated: every cursor encode_cursor returns has a non-empty o and
\* an entry in v for every field of o.
C17_AsStated ==
  call.fn = "decoded" =>
    /\ call.out.ok
    /\ Len(call.out.v.order_fields) > 0
    /\ ValuesCoverOrdering


\* The backend calls of a whole invocation: the count query, then the items
\* query.
CountThenItems == <<"count", "items">>

\* C18  Backend calls: a paginate invocation that returns a page has made
\* exactly two backend calls, the count query and then the items query; the
\* cursor is decoded and validated before the count query, so an invocation
\* that raises CursorError has made no backend call.
C18_BackendCalls ==
  /\ pc = "count" => calls = <<>> /\ result = NoResult
  /\ pc = "fetch" => calls = <<"count">> /\ result = NoResult
  /\ (pc = "done" /\ result.kind = "page") => calls = CountThenItems
  /\ (pc = "done" /\ result = Raised("CursorError")) => calls = <<>>

\* A page returned for a cursor after the count query and the items query.
C18_Witness ==
  /\ pc = "done" /\ result.kind = "page"
  /\ options.cursor # None
  /\ calls = CountThenItems

\* An invocation refused with CursorError and no backend call made.
C18_RefusedWithoutCalls ==
  pc = "done" /\ result = Raised("CursorError") /\ calls = <<>> /\ via \in {"tampered", "raw"}


\* What paginate(q, opts) may return on the table when no other call runs:
\* the exception it raises, or a page for each sequence the backend may
\* return for the items query.
Alone(q, opts) ==
  LET extracted == extract_order_fields_from_query(q)
      Run(order_fields, field_names, decoded) ==
        IF ~decoded.ok THEN {Raised(decoded.err)}
        ELSE
          LET is_prev == decoded.v.direction = PREV
              PageOf(sorted) ==
                LET has_more == Len(sorted) > opts.size
                    trimmed == SubSeq(sorted, 1, Min(Len(sorted), opts.size))
                IN  create_paginated_response(
                      order_fields, field_names,
                      IF is_prev THEN Reverse(trimmed) ELSE trimmed,
                      Cardinality(BaseRows(q)), opts.size,
                      IF is_prev THEN has_more ELSE decoded.v.has_cursor,
                      IF is_prev THEN TRUE ELSE has_more,
                      opts.include_prev_cursor)
              Pages(sought) ==
                { PageOf(s) : s \in Ordered(sought, IF is_prev THEN reverse_ordering(q.order_by)
                                                    ELSE q.order_by) }
          IN  Pages(IF decoded.v.has_cursor /\ Len(decoded.v.cursor_values) > 0
                    THEN { r \in BaseRows(q) :
                             EvalConditions(build_cursor_filter_conditions(
                                              order_fields, decoded.v.cursor_values, is_prev), r) }
                    ELSE BaseRows(q))
  IN  IF ~extracted.ok THEN {Raised(extracted.err)}
      ELSE Run(extracted.v, FieldNames(extracted.v),
               decode_cursor_values(extracted.v, FieldNames(extracted.v), opts.cursor))

\* Alone is what a single call returns: every result of a call that runs with
\* no other is one of Alone's.
AloneIsTheSingleCall ==
  (pc = "done" /\ result.err # "BackendError") => result \in Alone(query, options)

\* C19  Concurrent calls: of two paginate_async calls on a table that does
\* not change, interleaved in any way at their count and items queries, each
\* returns what it returns when it runs alone; while a call is at one of its
\* queries its paginator holds the ordering of its own query.
C19_ConcurrentCalls ==
  /\ pc \in {"count", "fetch"} =>
       /\ self.order_fields = query.order_by
       /\ self.field_names = FieldNames(query.order_by)
  /\ pc = "done" => result \in Alone(query, options)
  /\ call.frame.pc = "done" =>
       call.frame.result \in Alone(call.frame.query, call.frame.options)

\* Both calls have returned a page after each was suspended while the other
\* was at one of its queries; their queries differ in ordering and filter,
\* and one of them had a cursor.
C19_Witness ==
  /\ call.fn = "task" /\ call.overlap
  /\ pc = "done" /\ result.kind = "page"
  /\ call.frame.pc = "done" /\ call.frame.result.kind = "page"
  /\ query.order_by # call.frame.query.order_by
  /\ query.where # call.frame.query.where
  /\ options.cursor # None
  /\ Len(result.items) >= 1 /\ Len(call.frame.result.items) >= 1


\* The call under way or just ended began with the paginator as the
\* module-level function constructs it; the paginator is as constructed.
PaginatorAsConstructed == self = NewPaginator

\* C20  No library state modified: the paginator's order_fields and
\* field_names are after a paginate call what they were before it, whether
\* the call returned, raised or was cancelled at one of its backend calls,
\* and so they are at each backend call.
C20_NoStateModified == pc \in {"count", "fetch", "done"} => PaginatorAsConstructed

\* A call cancelled at its items query that leaves the paginator with the
\* ordering of the query in place of the one it was constructed with.
C20_Witness ==
  /\ pc = "done" /\ result = Raised("CancelledError")
  /\ calls = <<"count">>
  /\ ~PaginatorAsConstructed
  /\ self.order_fields = query.order_by

\* The calls that leave the paginator as constructed are those that raise for
\* a query without ORDER BY; the table is never written.
C20_WhatIsWritten ==
  /\ pc \in {"count", "fetch", "done"} =>
       (PaginatorAsConstructed <=> query.order_by = <<>>)
  /\ pc \in {"count", "fetch", "done"} /\ query.order_by # <<>> =>
       /\ self.order_fields = query.order_by
       /\ self.field_names = FieldNames(query.order_by)


\* The Django paginate was called with the dataset, filter, ordering and
\* options of the SQLAlchemy call that just ended.
SameCall ==
  /\ call.fn = "django" /\ pc = "done"
  /\ call.queryset = DjangoQuerySet(query)
  /\ call.options = options

C22_PageOptions ==
  /\ call.fn = "constructed" =>
       LET size == IF "size" \in call.kwargs.given THEN call.kwargs.size ELSE 20 IN
       /\ call.out.ok <=> (size >= 1 /\ size <= 100)
       /\ ~call.out.ok => call.out = Raise("ValidationError")
       /\ call.out.ok =>
            /\ call.out.v.size = size
            /\ "include_prev_cursor" \notin call.kwargs.given =>
                 call.out.v.include_prev_cursor = FALSE
            /\ "cursor" \notin call.kwargs.given => call.out.v.cursor = None
  /\ call.fn = "assigned" =>
       /\ ~call.out.ok
       /\ call.obj = call.before

\* Options constructed with size 100 and the other fields left out, then an
\* assignment of size 50 that is refused and leaves size 100.
C22_Witness ==
  /\ call.fn = "assigned"
  /\ call.kwargs.given = {"size"} /\ call.kwargs.size = 100
  /\ call.name = "size" /\ call.value = 50
  /\ call.obj.size = 100 /\ call.obj.include_prev_cursor = FALSE

\* Construction refused for size 101 and for size 0.
C22_Refused ==
  /\ call.fn = "constructed" /\ ~call.out.ok
  /\ "size" \in call.kwargs.given /\ call.kwargs.size \in {0, 101}


\* The rows a lowered predicate is tried on.
SampleRows == [Fields -> 0..2]

\* Row r satisfies the lowered predicate: a comparison of a column with an
\* integer, or an AND or OR of predicates.
RECURSIVE Selects(_, _)
Selects(pred, r) ==
  CASE pred.t = "compare" ->
         CASE pred.operator = "==" -> r[pred.left.name] = pred.right.n
           [] pred.operator = "!=" -> r[pred.left.name] # pred.right.n
           [] pred.operator = "<" -> r[pred.left.name] < pred.right.n
           [] pred.operator = "<=" -> r[pred.left.name] <= pred.right.n
           [] pred.operator = ">" -> r[pred.left.name] > pred.right.n
           [] pred.operator = ">=" -> r[pred.left.name] >= pred.right.n
    [] pred.t = "and" -> \A i \in 1..Len(pred.conditions) : Selects(pred.conditions[i], r)
    [] pred.t = "or" -> \E i \in 1..Len(pred.conditions) : Selects(pred.conditions[i], r)

\* The term applies `!` somewhere.
RECURSIVE HasNot(_)
HasNot(t) ==
  CASE t.e = "not" -> TRUE
    [] t.e \in {"rel", "and", "or", "add"} -> HasNot(t.l) \/ HasNot(t.r)
    [] OTHER -> FALSE

\* C23  Negation: a filter expression that applies `!` to a sub-expression is
\* lowered without failing, and `!e` is lowered to a predicate that selects
\* exactly the rows that the predicate of e rejects.
C23_NegationLowered ==
  (call.fn = "filtered" /\ HasNot(call.expr)) =>
    /\ call.out.kind = "query"
    /\ call.expr.e = "not" =>
         LET Inverse(sub) ==
               sub.kind = "query" =>
                 \A r \in SampleRows :
                   Selects(call.out.predicate[1], r) <=> ~Selects(sub.predicate[1], r)
         IN  Inverse(apply_cel_filter(query, call.expr.x, call.fields))

\* !(a == 1) over allowed fields ends in ValueError, raised from the
\* visitor's ValueError for the unary_not node.
C23_Witness ==
  /\ call.fn = "filtered"
  /\ call.expr = TNot(TRel("==", TIdent(FieldA), TInt(<<"1">>)))
  /\ call.out.kind = "ValueError" /\ call.out.cause = "ValueError"

\* Every expression with a negation is refused, and every comparison without
\* one is lowered.
C23_AlwaysRefused ==
  call.fn = "filtered" =>
    IF HasNot(call.expr)
    THEN call.out.kind = "ValueError" /\ call.out.cause = "ValueError"
    ELSE call.out.kind = "query"


\* The content of the literal starts or ends with a quote character.
QuoteAtEdge ==
  /\ Len(call.content) >= 1
  /\ \/ call.content[1] \in {"'", "\""}
     \/ call.content[Len(call.content)] \in {"'", "\""}

\* C24  String literals: lowering a string literal token yields the token
\* text without its one enclosing pair of quotes; quote characters of the
\* content, also at its very start or end, are kept.
C24_StringLiteral ==
  call.fn = "visited" => call.out = Ok(PyStr(call.content))

\* The literal '"x"': the value is x, without the double quotes of the
\* content.
C24_Witness ==
  /\ call.fn = "visited"
  /\ call.quote = "'" /\ call.content = <<"\"", "x", "\"">>
  /\ call.out = Ok(PyStr(<<"x">>))

\* The value is the content exactly when the content neither starts nor ends
\* with a quote character.
C24_ExceptAtEdges ==
  call.fn = "visited" => (call.out = Ok(PyStr(call.content)) <=> ~QuoteAtEdge)


\* decode_cursor returned a triple.
DecodedTriple == call.fn = "decoded" /\ call.out.ok

\* C25  Invariants of decoded cursors: every (ordering, values, direction)
\* that decode_cursor returns has a non-empty ordering, an entry of values
\* for every field of the ordering, non-empty field names, and direction
\* next or prev.
C25_DecodedInvariants ==
  DecodedTriple =>
    /\ Len(call.out.v.order_fields) > 0
    /\ OrderingNames(call.out.v.order_fields) \subseteq DictKeys(call.out.v.values)
    /\ \A i \in 1..Len(call.out.v.order_fields) : Len(call.out.v.order_fields[i][1]) > 0
    /\ call.out.v.direction \in {NEXT, PREV}

\* The cursor of {"o":[],"v":{"a":1}} decodes to an empty ordering.
C25_Witness ==
  /\ DecodedTriple
  /\ call.src = "value" /\ call.form = "plain"
  /\ call.out.v.order_fields = <<>>
  /\ Len(call.out.v.values) = 1

\* The cursor of {"o":["+a"],"v":{}} decodes to values without an entry for a.
C25_ValuesWithoutField ==
  /\ DecodedTriple
  /\ call.out.v.order_fields = << <<<<"a">>, "asc">> >>
  /\ call.out.v.values = <<>>

\* What every returned triple does satisfy: pairs of a non-empty name and asc
\* or desc, and direction next or prev.
C25_WhatHolds ==
  DecodedTriple =>
    /\ \A i \in 1..Len(call.out.v.order_fields) :
         /\ Len(call.out.v.order_fields[i][1]) > 0
         /\ call.out.v.order_fields[i][2] \in Directions
    /\ call.out.v.direction \in {NEXT, PREV}


\* The number of pages of `size` rows that `total` rows fill: one when there
\* are no rows.
PagesOf(total, size) ==
  IF total = 0 THEN 1 ELSE (total + size - 1) \div size

\* C26  End of the forward walk: with an ordering that ends in the unique
\* field, a walk from the first page through next cursors holds a page whose
\* next is null after at most ceil(total_size / size) calls, one call when
\* total_size is 0, and that page ends with the last row of the fully
\* ordered rows of the query.
C26_WalkEnds ==
  (ForwardWalk(Len(trail)) /\ UniqueFinal(query.order_by)) =>
    LET full == FullyOrdered(query)
        last == trail[Len(trail)].page
        most == PagesOf(last.total_size, options.size)
    IN  /\ last.total_size = Len(full)
        /\ Len(trail) <= most
        /\ Len(trail) = most => last.next = None
        /\ (last.next = None /\ Len(full) > 0) =>
             /\ Len(last.items) > 0
             /\ last.items[Len(last.items)] = full[Len(full)]

\* A walk over three rows in pages of two that ends on its second page, and
\* the page ends with the last row.
C26_Witness ==
  /\ ForwardWalk(Len(trail)) /\ Len(trail) = 2
  /\ UniqueFinal(query.order_by)
  /\ options.size = 2 /\ result.total_size = 3
  /\ pc = "done" /\ result.next = None
  /\ result.items[Len(result.items)] = FullyOrdered(query)[3]

\* A walk over no rows ends with its first call.
C26_EmptyWalk ==
  /\ ForwardWalk(Len(trail)) /\ Len(trail) = 1
  /\ UniqueFinal(query.order_by)
  /\ result.total_size = 0 /\ result.items = <<>> /\ result.next = None

\* A walk over two rows in pages of one ends with its second call, a full
\* page.
C26_ExactMultiple ==
  /\ ForwardWalk(Len(trail)) /\ Len(trail) = 2
  /\ UniqueFinal(query.order_by)
  /\ options.size = 1 /\ result.total_size = 2
  /\ pc = "done" /\ result.next = None


\* Both calls have returned.
BothReturned == call.fn = "task" /\ pc = "done" /\ call.frame.pc = "done"

\* C27  Shared paginator: of two paginate_async calls on one paginator
\* object, on queries with different orderings and interleaved at their
\* count and items queries, each returns what it returns when it runs alone.
C27_SharedPaginator ==
  /\ pc = "done" => result \in Alone(query, options)
  /\ call.frame.pc = "done" =>
       call.frame.result \in Alone(call.frame.query, call.frame.options)

\* Both calls have returned after each was suspended while the other was at
\* one of its queries; their queries differ in ordering and neither had a
\* cursor.
C27_Witness ==
  /\ BothReturned /\ call.overlap
  /\ query.order_by # call.frame.query.order_by
  /\ options.cursor = None /\ call.frame.options.cursor = None
  /\ result.kind = "page" /\ call.frame.result.kind = "page"

\* A call without a cursor returned the rows of its own query in its own
\* order, with a next cursor that carries the ordering of the other call.
C27_CursorOfTheOther ==
  /\ BothReturned /\ call.overlap
  /\ options.cursor = None
  /\ result.kind = "page" /\ result.next # None
  /\ \E p \in Alone(query, options) : p.items = result.items /\ p.next # result.next
  /\ decode_cursor(result.next).ok
  /\ decode_cursor(result.next).v.order_fields = call.frame.query.order_by
  /\ query.order_by # call.frame.query.order_by

\* A call with a cursor ended in KeyError after its count query.
C27_KeyError ==
  /\ call.fn = "task" /\ call.overlap
  /\ pc = "done" /\ result = Raised("KeyError") /\ calls = <<"count">>

\* A call returns what it returns alone when the other call's query carries
\* the same ordering, or when the other call has not begun.
C27_SameOrdering ==
  (call.fn = "task" /\ pc = "done"
     /\ (call.frame.query.order_by = query.order_by \/ call.frame.pc = "idle")) =>
    result \in Alone(query, options)


\* The current call finished after the client followed the next cursor of
\* the page it held.
FollowedNext == pc = "done" /\ via = "next"

\* C28  Next cursors lead somewhere: with an ordering that ends in the unique
\* field, the page fetched with a next cursor that paginate emitted, on a
\* forward page or on a backward page reached through a prev cursor of the
\* paginator, holds at least one item, whatever the page size.
C28_NextCursorYieldsItems ==
  (FollowedNext /\ UniqueFinal(query.order_by)) =>
    (result.kind = "page" /\ Len(result.items) >= 1)

\* The next cursor of a backward page, itself reached through the prev
\* cursor of a second page, was followed and gave a page with an item.
C28_Witness ==
  /\ FollowedNext /\ UniqueFinal(query.order_by)
  /\ Len(trail) = 4
  /\ trail[3].via = "prev" /\ trail[4].via = "next"
  /\ trail[3].page.next = options.cursor
  /\ Len(result.items) >= 1

\* The same without the unique final field: rows that tie with the last row
\* of a page are skipped, and the next cursor may give an empty page.
C28_WithTies ==
  FollowedNext => (result.kind = "page" /\ Len(result.items) >= 1)


\* C29  No row twice, with ties: whatever the ordering, with or without a
\* unique final field, on a forward walk through next cursors every row of a
\* page sorts strictly after the last row of the page before it, and no row
\* is on two pages of the walk.
C29_NoRowTwice ==
  ForwardWalk(Len(trail)) =>
    /\ \A k \in 2..Len(trail) :
         LET before == trail[k - 1].page.items
         IN  /\ Len(before) >= 1
             /\ \A i \in 1..Len(trail[k].page.items) :
                  Before(before[Len(before)], trail[k].page.items[i], query.order_by)
    /\ \A i, j \in 1..Len(WalkItems(Len(trail))) :
         i # j => WalkItems(Len(trail))[i] # WalkItems(Len(trail))[j]

\* A walk of two pages under an ordering on a alone, over rows two of which
\* tie on a: the walk has ended and one of the tied rows was never returned.
C29_Witness ==
  /\ ForwardWalk(Len(trail)) /\ Len(trail) = 2
  /\ query.order_by = << <<FieldA, "asc">> >>
  /\ pc = "done" /\ result.next = None /\ Len(result.items) = 1
  /\ options.size = 1
  /\ \E r \in BaseRows(query) :
       /\ \A i \in 1..Len(WalkItems(2)) : WalkItems(2)[i] # r
       /\ r[FieldA] = trail[1].page.items[1][FieldA]


\* C30  Empty and blank cursors: paginate with the empty string for a cursor
\* does what it does with no cursor: no CursorError, and on a query with an
\* ORDER BY the first page, read forward, with has_previous false.  With a
\* non-empty cursor of whitespace alone it raises CursorError before any
\* backend call.
C30_EmptyAndBlankCursor ==
  via = "raw" =>
    IF options.cursor = <<>>
    THEN /\ Alone(query, options) = Alone(query, [options EXCEPT !.cursor = None])
         /\ pc = "done" =>
              /\ result \in Alone(query, [options EXCEPT !.cursor = None])
              /\ result.err # "CursorError"
              /\ query.order_by # <<>> =>
                   /\ result.kind = "page" /\ calls = CountThenItems
                   /\ ~locals.has_cursor /\ locals.direction = NEXT
                   /\ ~locals.has_previous
                   /\ \E full \in Ordered(BaseRows(query), query.order_by) :
                        result.items = SubSeq(full, 1, Min(options.size, Len(full)))
    ELSE query.order_by # <<>> =>
           (pc = "done" /\ result = Raised("CursorError") /\ calls = <<>>)

\* The empty cursor gave the first page of two rows out of three, with a next
\* cursor.
C30_Witness ==
  /\ via = "raw" /\ options.cursor = <<>>
  /\ pc = "done" /\ result.kind = "page"
  /\ Len(result.items) = 2 /\ result.total_size = 3 /\ result.next # None

\* A cursor of a space and a newline was refused on a query with an ORDER BY.
C30_BlankRefused ==
  /\ via = "raw" /\ options.cursor = <<" ", "\n">>
  /\ query.order_by # <<>>
  /\ result = Raised("CursorError") /\ calls = <<>>

\* On a query without ORDER BY the call raises ValueError whatever the
\* cursor, before the cursor is looked at.
C30_UnorderedQuery ==
  (via = "raw" /\ query.order_by = <<>>) =>
    (pc = "done" /\ result = Raised("ValueError") /\ calls = <<>>)

====
